---- MODULE Spec2Model ----
(***************************************************************************)
(* Order-report proxy: the enrichment pipeline of the proxy server (the    *)
(* spreadsheet-backed version, src/unnamed/part_000, and the cache-less    *)
(* version, src/server.js).                                                *)
(*                                                                         *)
(* JavaScript objects are records whose domain is the set of properties    *)
(* that are present; null is the string Null for scalar properties and the *)
(* record NullObj for object properties.                                   *)
(***************************************************************************)
EXTENDS Integers, Sequences, FiniteSets, TLC

VARIABLES
  customerDataCache,  \* part_000:45  mapping order number -> sheet entry
  lastCacheUpdate,    \* part_000:46  Null or a timestamp
  GOOGLE_SHEETS_ID,   \* part_000:35  Null or the id of the configured spreadsheet
  refreshes,          \* activations of refreshCustomerDataCache awaiting the download
  refreshLog,         \* completed refreshes, oldest first
  csv,                \* CSV harness: the text handed to the parser and what it produced
  rcOrder,            \* reconciler harness: the order handed to the reconciler
  rcOut,              \* reconciler harness: what the reconciler returned
  rcStage,            \* reconciler harness: "input" | "sheets" | "legacy"
  rb,                 \* backoff harness: the retryWithBackoff activation
  route,              \* handler that is running: "none" | "list" | "single" | "debug"
  pc,                 \* position of the running handler
  query,              \* destructured req.query / req.params of the running request
  orders,             \* list handler: orders returned by fetchShopifyOrders
  batchStart,         \* list handler: loop variable i (0-based) of the batch loop
  tasks,              \* activations of enrichOrderWithTransactions being awaited
  enrichedOrders,     \* list handler: enrichedOrders; single handler: <<enrichedOrder>>
  responses,          \* responses sent for the running request
  inflight,           \* outbound platform requests issued and not yet answered
  issued,             \* number of outbound requests issued, per kind
  handlerLog,         \* list handler: batches started and sleeps taken, in order
  faults              \* number of non-success upstream answers so far

vars == <<customerDataCache, lastCacheUpdate, GOOGLE_SHEETS_ID, refreshes, refreshLog,
          csv, rcOrder, rcOut, rcStage, rb,
          route, pc, query, orders, batchStart, tasks, enrichedOrders, responses,
          inflight, issued, handlerLog, faults>>

cacheVars == <<customerDataCache, lastCacheUpdate, GOOGLE_SHEETS_ID, refreshes, refreshLog>>
csvVars == <<csv>>
rcVars == <<rcOrder, rcOut, rcStage>>
rbVars == <<rb>>
reqVars == <<route, pc, query, orders, batchStart, tasks, enrichedOrders, responses,
             inflight, issued, handlerLog, faults>>

-----------------------------------------------------------------------------
(* JavaScript values *)

Null == "<null>"
NullObj == [isNull |-> TRUE]

\* Boolean(v) for the scalar values of the model: null, undefined and '' are falsy
Truthy(v) == v \notin {Null, ""}

\* a || b
Or(a, b) == IF Truthy(a) THEN a ELSE b

\* obj?.f where obj itself may be absent from its parent (o.p?.f)
Opt(o, p, f) ==
  IF p \in DOMAIN o /\ f \in DOMAIN o[p] THEN o[p][f] ELSE Null

\* o.f for a scalar property that may be absent
Prop(o, f) == IF f \in DOMAIN o THEN o[f] ELSE Null

\* parts.join(' ')
RECURSIVE JoinSpace(_)
JoinSpace(parts) ==
  IF Len(parts) = 0 THEN ""
  ELSE IF Len(parts) = 1 THEN parts[1]
  ELSE parts[1] \o " " \o JoinSpace(Tail(parts))

\* [a, b].filter(Boolean)
FilterBoolean(parts) == SelectSeq(parts, Truthy)

-----------------------------------------------------------------------------
(* Field reconciler *)

\* order.customer?.accepts_marketing || false
acceptsMarketing(order) ==
  IF "customer" \in DOMAIN order /\ "accepts_marketing" \in DOMAIN order.customer
  THEN order.customer.accepts_marketing ELSE FALSE

\* order.order_number?.toString() || order.number?.toString()
orderNumberOf(order) ==
  IF "order_number" \in DOMAIN order THEN ToString(order.order_number)
  ELSE IF "number" \in DOMAIN order THEN ToString(order.number)
  ELSE Null

\* customerDataCache[orderNumber]; an absent entry is the record without properties
sheetsDataOf(cache, order) ==
  IF orderNumberOf(order) \in DOMAIN cache THEN cache[orderNumberOf(order)]
  ELSE [absent |-> TRUE]

\* customerInfo.full_name after the "Build full name" step
BuildFullNameNoFilter(first, last) ==
  IF Truthy(first) \/ Truthy(last) THEN JoinSpace(<<first, last>>) ELSE Null

BuildFullName(first, last) ==
  IF Truthy(first) \/ Truthy(last)
  THEN JoinSpace(FilterBoolean(<<first, last>>))
  ELSE Null

\* the customerInfo object of enrichOrderWithCustomerData, sheetsData given
customerInfoNoContactEmail(sd, order) ==
  LET email == Or(Prop(sd, "email"), Or(Opt(order, "customer", "email"),
                 Or(Prop(order, "email"), Null)))
      first == Or(Prop(sd, "first_name"), Or(Opt(order, "customer", "first_name"),
                 Or(Opt(order, "shipping_address", "first_name"),
                    Or(Opt(order, "billing_address", "first_name"), Null))))
      last  == Or(Prop(sd, "last_name"), Or(Opt(order, "customer", "last_name"),
                 Or(Opt(order, "shipping_address", "last_name"),
                    Or(Opt(order, "billing_address", "last_name"), Null))))
      phone == Or(Prop(sd, "phone"), Or(Opt(order, "customer", "phone"),
                 Or(Prop(order, "phone"),
                    Or(Opt(order, "shipping_address", "phone"),
                       Or(Opt(order, "billing_address", "phone"), Null)))))
  IN [id |-> Or(Opt(order, "customer", "id"), Null),
      email |-> email, first_name |-> first, last_name |-> last, phone |-> phone,
      accepts_marketing |-> acceptsMarketing(order),
      full_name |-> BuildFullName(first, last)]

customerInfoPlatformFirst(sd, order) ==
  LET email == Or(Opt(order, "customer", "email"), Or(Prop(sd, "email"),
                 Or(Prop(order, "email"), Or(Prop(order, "contact_email"), Null))))
      first == Or(Opt(order, "customer", "first_name"), Or(Prop(sd, "first_name"),
                 Or(Opt(order, "shipping_address", "first_name"),
                    Or(Opt(order, "billing_address", "first_name"), Null))))
      last  == Or(Opt(order, "customer", "last_name"), Or(Prop(sd, "last_name"),
                 Or(Opt(order, "shipping_address", "last_name"),
                    Or(Opt(order, "billing_address", "last_name"), Null))))
      phone == Or(Opt(order, "customer", "phone"), Or(Prop(sd, "phone"),
                 Or(Prop(order, "phone"),
                    Or(Opt(order, "shipping_address", "phone"),
                       Or(Opt(order, "billing_address", "phone"), Null)))))
  IN [id |-> Or(Opt(order, "customer", "id"), Null),
      email |-> email, first_name |-> first, last_name |-> last, phone |-> phone,
      accepts_marketing |-> acceptsMarketing(order),
      full_name |-> BuildFullName(first, last)]

customerInfoOf(sd, order) ==
  LET email == Or(Prop(sd, "email"), Or(Opt(order, "customer", "email"),
                 Or(Prop(order, "email"), Or(Prop(order, "contact_email"), Null))))
      first == Or(Prop(sd, "first_name"), Or(Opt(order, "customer", "first_name"),
                 Or(Opt(order, "shipping_address", "first_name"),
                    Or(Opt(order, "billing_address", "first_name"), Null))))
      last  == Or(Prop(sd, "last_name"), Or(Opt(order, "customer", "last_name"),
                 Or(Opt(order, "shipping_address", "last_name"),
                    Or(Opt(order, "billing_address", "last_name"), Null))))
      phone == Or(Prop(sd, "phone"), Or(Opt(order, "customer", "phone"),
                 Or(Prop(order, "phone"),
                    Or(Opt(order, "shipping_address", "phone"),
                       Or(Opt(order, "billing_address", "phone"), Null)))))
  IN [id |-> Or(Opt(order, "customer", "id"), Null),
      email |-> email, first_name |-> first, last_name |-> last, phone |-> phone,
      accepts_marketing |-> acceptsMarketing(order),
      full_name |-> BuildFullName(first, last)]

\* `${sheetsData.first_name || ''} ${sheetsData.last_name || ''}`.trim()
sheetsName(sd) ==
  LET f == Or(Prop(sd, "first_name"), "")
      l == Or(Prop(sd, "last_name"), "")
  IN IF f = "" THEN l ELSE IF l = "" THEN f ELSE f \o " " \o l

\* the shippingAddress object of enrichOrderWithCustomerData
shippingAddressOf(sd, order, ci) ==
  [first_name |-> Or(Prop(sd, "first_name"),
                     Or(Opt(order, "shipping_address", "first_name"), ci.first_name)),
   last_name  |-> Or(Prop(sd, "last_name"),
                     Or(Opt(order, "shipping_address", "last_name"), ci.last_name)),
   name       |-> IF Truthy(Or(Prop(sd, "first_name"), Prop(sd, "last_name")))
                  THEN sheetsName(sd)
                  ELSE Opt(order, "shipping_address", "name"),
   address1   |-> Or(Prop(sd, "address1"), Or(Opt(order, "shipping_address", "address1"), Null)),
   address2   |-> Or(Opt(order, "shipping_address", "address2"), Null),
   city       |-> Or(Prop(sd, "city"), Or(Opt(order, "shipping_address", "city"), Null)),
   province   |-> Or(Prop(sd, "province"), Or(Opt(order, "shipping_address", "province"), Null)),
   province_code |-> Or(Opt(order, "shipping_address", "province_code"), Null),
   zip        |-> Or(Prop(sd, "zip"), Or(Opt(order, "shipping_address", "zip"), Null)),
   country    |-> Or(Prop(sd, "country"), Or(Opt(order, "shipping_address", "country"), Null)),
   country_code |-> Or(Opt(order, "shipping_address", "country_code"), Null),
   phone      |-> Or(Prop(sd, "phone"),
                     Or(Opt(order, "shipping_address", "phone"), ci.phone)),
   company    |-> Or(Opt(order, "shipping_address", "company"), Null)]

\* enrichOrderWithCustomerData(order), reading the cache once
enrichOrderWithCustomerData(cache, order) ==
  LET sd == sheetsDataOf(cache, order)
      ci == customerInfoOf(sd, order)
  IN [customer |-> IF "customer" \in DOMAIN order THEN order.customer ELSE ci,
      customer_info |-> ci,
      shipping_address |-> shippingAddressOf(sd, order, ci),
      billing_address |-> IF "billing_address" \in DOMAIN order
                          THEN order.billing_address ELSE NullObj] @@ order

\* the customerInfo object of the cache-less enrichOrderWithTransactions
customerInfoLegacy(order) ==
  LET email == Or(Opt(order, "customer", "email"),
                 Or(Prop(order, "email"), Or(Prop(order, "contact_email"), Null)))
      first == Or(Opt(order, "customer", "first_name"),
                 Or(Opt(order, "shipping_address", "first_name"),
                    Or(Opt(order, "billing_address", "first_name"), Null)))
      last  == Or(Opt(order, "customer", "last_name"),
                 Or(Opt(order, "shipping_address", "last_name"),
                    Or(Opt(order, "billing_address", "last_name"), Null)))
      phone == Or(Opt(order, "customer", "phone"),
                 Or(Prop(order, "phone"),
                    Or(Opt(order, "shipping_address", "phone"),
                       Or(Opt(order, "billing_address", "phone"), Null))))
  IN [id |-> Or(Opt(order, "customer", "id"), Null),
      email |-> email, first_name |-> first, last_name |-> last, phone |-> phone,
      accepts_marketing |-> acceptsMarketing(order),
      full_name |-> BuildFullName(first, last)]

\* the object returned by the cache-less enrichOrderWithTransactions
enrichLegacy(order, transactions) ==
  LET ci == customerInfoLegacy(order)
  IN [customer |-> IF "customer" \in DOMAIN order THEN order.customer ELSE ci,
      customer_info |-> ci,
      shipping_address |-> IF "shipping_address" \in DOMAIN order
                           THEN order.shipping_address ELSE NullObj,
      billing_address |-> IF "billing_address" \in DOMAIN order
                          THEN order.billing_address ELSE NullObj,
      transactions |-> transactions] @@ order

-----------------------------------------------------------------------------
(* Inputs of the reconciler harness *)

ContactFields == {"email", "first_name", "last_name", "phone"}
SheetAddressFields == {"address1", "city", "province", "zip", "country"}

\* a value of property f as supplied by the given source
Tag(source, f) == source \o ":" \o f

\* restriction of a record to the properties in S
Pick(S, rec) == [f \in S \cap DOMAIN rec |-> rec[f]]

\* a cache entry as the row loop builds it: all nine properties, each a
\* non-empty string or null
SheetEntry(S, withAddress) ==
  [f \in ContactFields \cup SheetAddressFields |->
     IF f \in S \/ (withAddress /\ f \in SheetAddressFields) THEN Tag("sheet", f) ELSE Null]

RcEntries == {SheetEntry(S, a) : S \in SUBSET ContactFields, a \in {FALSE}}
               \cup {SheetEntry(ContactFields, TRUE), SheetEntry({}, TRUE)}

\* the caches of the harness: empty, or one entry under the key "1001"
RcCaches == {<<>>} \cup {[k \in {"1001"} |-> e] : e \in RcEntries}

ContactSubsets ==
  {{}, {"email", "first_name"}, {"last_name", "phone"}, {"first_name"}, ContactFields}

RcCustomers ==
  {[id |-> "cust", accepts_marketing |-> TRUE] @@
     [f \in ContactFields |-> IF f \in S THEN Tag("customer", f) ELSE blank] :
       S \in ContactSubsets, blank \in {Null, ""}}

RcOrderLevel ==
  {Pick(S, [email |-> Tag("order", "email"),
            contact_email |-> Tag("order", "contact_email"),
            phone |-> Tag("order", "phone")]) :
     S \in {{}, {"email"}, {"contact_email", "phone"}, {"email", "contact_email", "phone"}}}

RcAddress(source, S) ==
  [f \in {"first_name", "last_name", "phone", "name", "address1", "city"} |->
     IF f \in S THEN Tag(source, f) ELSE Null]

RcShipping ==
  {RcAddress("shipping", S) :
     S \in {{}, {"first_name"}, {"last_name", "phone"},
            {"first_name", "last_name", "phone", "name", "address1", "city"}}}

RcBilling ==
  {RcAddress("billing", S) : S \in {{"first_name"}, {"first_name", "last_name", "phone"}}}

RcNumbers ==
  {[order_number |-> 1001], [order_number |-> 1002], [number |-> 1001]}

\* with(name, objs): the records that carry one of objs under name, or nothing
OptionalProp(name, objs) == {<<>>} \cup {[p \in {name} |-> o] : o \in objs}

RcOrders ==
  {[id |-> "o1"] @@ n @@ lvl @@ c @@ s @@ b :
     n \in RcNumbers, lvl \in RcOrderLevel,
     c \in OptionalProp("customer", RcCustomers),
     s \in OptionalProp("shipping_address", RcShipping),
     b \in OptionalProp("billing_address", RcBilling)}

-----------------------------------------------------------------------------
(* Backoff executor *)

DefaultMaxRetries == 3
DefaultInitialDelay == 1000

RECURSIVE Pow2(_)
\* Math.pow(2, n)
Pow2(n) == IF n = 0 THEN 1 ELSE 2 * Pow2(n - 1)

\* an upstream answer: a response body, or a failure that carries the HTTP
\* status of its response (no status property: no response was received)
OkAnswer(data) == [kind |-> "ok", data |-> data]
HttpError(status) ==
  [kind |-> "error", status |-> status,
   message |-> "Request failed with status code " \o ToString(status)]
NetworkError == [kind |-> "error", message |-> "Network Error"]

\* error.response?.status === 429
IsRateLimited(o) == "status" \in DOMAIN o /\ o.status = 429

\* const delay = initialDelay * Math.pow(2, i)
backoffDelayConstant(initialDelay, i) == initialDelay

backoffDelay(initialDelay, i) == initialDelay * Pow2(i)

\* retryWithBackoff(fn, maxRetries, initialDelay) up to its first await: the
\* loop is entered with i = 0 and fn is invoked
retryStart(maxRetries, initialDelay) ==
  [maxRetries |-> maxRetries, initialDelay |-> initialDelay, i |-> 0,
   pc |-> "calling", calls |-> 1, sleeps |-> <<>>, settled |-> [kind |-> "pending"],
   log |-> <<>>]

\* the promise of fn() settles with o: return, sleep before a retry, or throw
\* (log keeps the answers fn has given so far)
retryOnOutcomeAnyError(r, o) ==
  IF o.kind = "ok" THEN [r EXCEPT !.pc = "returned", !.settled = o, !.log = Append(@, o)]
  ELSE IF r.i < r.maxRetries - 1
       THEN [r EXCEPT !.pc = "sleeping", !.log = Append(@, o),
                      !.sleeps = Append(@, backoffDelay(r.initialDelay, r.i))]
       ELSE [r EXCEPT !.pc = "thrown", !.settled = o, !.log = Append(@, o)]

retryOnOutcomeOffByOne(r, o) ==
  IF o.kind = "ok" THEN [r EXCEPT !.pc = "returned", !.settled = o, !.log = Append(@, o)]
  ELSE IF IsRateLimited(o) /\ r.i < r.maxRetries
       THEN [r EXCEPT !.pc = "sleeping", !.log = Append(@, o),
                      !.sleeps = Append(@, backoffDelay(r.initialDelay, r.i))]
       ELSE [r EXCEPT !.pc = "thrown", !.settled = o, !.log = Append(@, o)]

retryOnOutcome(r, o) ==
  IF o.kind = "ok" THEN [r EXCEPT !.pc = "returned", !.settled = o, !.log = Append(@, o)]
  ELSE IF IsRateLimited(o) /\ r.i < r.maxRetries - 1
       THEN [r EXCEPT !.pc = "sleeping", !.log = Append(@, o),
                      !.sleeps = Append(@, backoffDelay(r.initialDelay, r.i))]
       ELSE [r EXCEPT !.pc = "thrown", !.settled = o, !.log = Append(@, o)]

\* the sleep elapses: i++, the loop test, and the next invocation of fn; when
\* the loop test fails the function falls off its end and returns undefined
retryOnWake(r) ==
  IF r.i + 1 < r.maxRetries
  THEN [r EXCEPT !.i = r.i + 1, !.pc = "calling", !.calls = r.calls + 1]
  ELSE [r EXCEPT !.i = r.i + 1, !.pc = "returned", !.settled = [kind |-> "undefined"]]

-----------------------------------------------------------------------------
(* Quiescent values of the parts a specification does not exercise *)

IdleRefresh == GOOGLE_SHEETS_ID = "sheet-id" /\ refreshes = {} /\ refreshLog = <<>>
IdleCache == customerDataCache = <<>> /\ lastCacheUpdate = Null /\ IdleRefresh
IdleCsv == csv = [stage |-> "off"]
IdleRc == rcOrder = NullObj /\ rcOut = NullObj /\ rcStage = "off"
IdleRb == rb = [pc |-> "off"]
IdleReq ==
  /\ route = "none" /\ pc = "idle" /\ query = NullObj
  /\ orders = <<>> /\ batchStart = 0 /\ tasks = <<>> /\ enrichedOrders = <<>>
  /\ responses = <<>> /\ inflight = {} /\ handlerLog = <<>> /\ faults = 0
  /\ issued = [list |-> 0, order |-> 0, transactions |-> 0, variant |-> 0]

-----------------------------------------------------------------------------
(* Specification of the field reconciler: every input, both versions *)

RcTimestamp == "t1"

RcInit ==
  /\ customerDataCache \in RcCaches
  /\ lastCacheUpdate = IF customerDataCache = <<>> THEN Null ELSE RcTimestamp
  /\ rcOrder \in RcOrders
  /\ rcOut = NullObj
  /\ rcStage = "input"
  /\ IdleRefresh /\ IdleRb /\ IdleCsv /\ IdleReq

\* enrichOrderWithCustomerData(order) of the spreadsheet-backed version
RcSheets ==
  /\ rcStage = "input"
  /\ rcOut' = enrichOrderWithCustomerData(customerDataCache, rcOrder)
  /\ rcStage' = "sheets"
  /\ UNCHANGED <<rcOrder, cacheVars, rbVars, csvVars, reqVars>>

\* enrichOrderWithTransactions(order) of the cache-less version, the
\* transaction fetch having returned no transaction
RcLegacy ==
  /\ rcStage = "input"
  /\ rcOut' = enrichLegacy(rcOrder, <<>>)
  /\ rcStage' = "legacy"
  /\ UNCHANGED <<rcOrder, cacheVars, rbVars, csvVars, reqVars>>

RcNext == RcSheets \/ RcLegacy

SpecReconcile == RcInit /\ [][RcNext]_vars

(* Properties of the field reconciler *)

\* first truthy element of a sequence of values, else null
RECURSIVE FirstNonEmpty(_)
FirstNonEmpty(vals) ==
  IF Len(vals) = 0 THEN Null
  ELSE IF Truthy(vals[1]) THEN vals[1] ELSE FirstNonEmpty(Tail(vals))

\* the platform-only value of a contact field: customer object, then the
\* order-level properties, then the shipping and billing addresses
PlatformValue(order, f) ==
  LET cust == IF "customer" \in DOMAIN order THEN order.customer ELSE <<>>
      ship == IF "shipping_address" \in DOMAIN order THEN order.shipping_address ELSE <<>>
      bill == IF "billing_address" \in DOMAIN order THEN order.billing_address ELSE <<>>
  IN CASE f = "email" ->
            FirstNonEmpty(<<Prop(cust, f), Prop(order, "email"), Prop(order, "contact_email")>>)
       [] f = "phone" ->
            FirstNonEmpty(<<Prop(cust, f), Prop(order, "phone"), Prop(ship, f), Prop(bill, f)>>)
       [] OTHER ->
            FirstNonEmpty(<<Prop(cust, f), Prop(ship, f), Prop(bill, f)>>)

RcHasEntry == orderNumberOf(rcOrder) \in DOMAIN customerDataCache
RcEntry == customerDataCache[orderNumberOf(rcOrder)]

\* C8: when the cache holds an entry for the order's number, every contact
\* field (email, first_name, last_name, phone) for which the entry supplies a
\* non-empty value carries the spreadsheet value in customer_info, whatever the
\* platform supplies; every field the entry does not supply carries the
\* platform value, field by field.
C8_SheetPrecedencePerField ==
  (rcStage = "sheets" /\ RcHasEntry) =>
    \A f \in ContactFields :
      /\ Truthy(RcEntry[f]) => rcOut.customer_info[f] = RcEntry[f]
      /\ ~Truthy(RcEntry[f]) => rcOut.customer_info[f] = PlatformValue(rcOrder, f)

\* a record that mixes sources: the sheet's email overrides a different
\* customer email, while the first name comes from the customer object
C8_Witness ==
  /\ rcStage = "sheets" /\ RcHasEntry
  /\ Truthy(RcEntry.email)
  /\ Truthy(Opt(rcOrder, "customer", "email"))
  /\ Opt(rcOrder, "customer", "email") # RcEntry.email
  /\ rcOut.customer_info.email = RcEntry.email
  /\ RcEntry.first_name = Null
  /\ rcOut.customer_info.first_name = Tag("customer", "first_name")

\* C9: when the cache has no entry for the order's number (the empty cache
\* included), customer_info is the platform-only record, field by field, and
\* is the record the cache-less version builds for the same order.
C9_NoEntryIsPlatformOnly ==
  (rcStage = "sheets" /\ ~RcHasEntry) =>
    /\ rcOut.customer_info = customerInfoLegacy(rcOrder)
    /\ \A f \in ContactFields : rcOut.customer_info[f] = PlatformValue(rcOrder, f)

\* a populated cache without an entry for this order, the email coming from
\* the order's contact_email
C9_Witness ==
  /\ rcStage = "sheets" /\ ~RcHasEntry
  /\ customerDataCache # <<>>
  /\ rcOut.customer_info.email = Tag("order", "contact_email")
  /\ rcOut.customer_info.last_name = Tag("billing", "last_name")

\* C10: in every customer_info produced (either version), full_name is null
\* exactly when first_name and last_name are both null; otherwise it is the
\* non-null parts joined by one space, first name first.
C10_FullName ==
  (rcStage \in {"sheets", "legacy"}) =>
    LET ci == rcOut.customer_info IN
    /\ (ci.full_name = Null) <=> (ci.first_name = Null /\ ci.last_name = Null)
    /\ (ci.first_name # Null /\ ci.last_name # Null) =>
          ci.full_name = ci.first_name \o " " \o ci.last_name
    /\ (ci.first_name # Null /\ ci.last_name = Null) => ci.full_name = ci.first_name
    /\ (ci.first_name = Null /\ ci.last_name # Null) => ci.full_name = ci.last_name

\* a record with a last name only
C10_Witness ==
  /\ rcStage = "sheets"
  /\ rcOut.customer_info.first_name = Null
  /\ rcOut.customer_info.last_name # Null
  /\ rcOut.customer_info.full_name = rcOut.customer_info.last_name

-----------------------------------------------------------------------------
(* Specification of the backoff executor: any retry count and delay *)

MaxRetriesBound == 3
InitialDelays == {100, 500, DefaultInitialDelay}

RbAnswers ==
  {OkAnswer("A"), OkAnswer("B"), HttpError(429), HttpError(500), NetworkError}

RbInit ==
  /\ rb \in {retryStart(m, d) : m \in 1..MaxRetriesBound, d \in InitialDelays}
  /\ IdleCache /\ IdleRc /\ IdleCsv /\ IdleReq

\* the promise returned by fn() settles
RbFnSettles ==
  /\ rb.pc = "calling"
  /\ \E o \in RbAnswers : rb' = retryOnOutcome(rb, o)
  /\ UNCHANGED <<cacheVars, rcVars, csvVars, reqVars>>

\* the timer of sleep(delay) fires
RbSleepElapses ==
  /\ rb.pc = "sleeping"
  /\ rb' = retryOnWake(rb)
  /\ UNCHANGED <<cacheVars, rcVars, csvVars, reqVars>>

RbNext == RbFnSettles \/ RbSleepElapses

SpecRetry == RbInit /\ [][RbNext]_vars

(* Properties of the backoff executor *)

\* C4: fn is invoked at most maxRetries times; a 429 on attempt i (0-based)
\* with i < maxRetries-1 is followed by exactly one sleep and then the next
\* invocation; the first successful answer is returned and ends the
\* invocations; maxRetries answers of 429 propagate the last failure.
C4_RetryContract ==
  (rb.pc # "off") =>
    LET n == Len(rb.log) IN
    /\ rb.calls <= rb.maxRetries
    /\ rb.calls = n + (IF rb.pc = "calling" THEN 1 ELSE 0)
    /\ Len(rb.sleeps) = rb.calls - 1 + (IF rb.pc = "sleeping" THEN 1 ELSE 0)
    /\ \A k \in 1..n :
         (IsRateLimited(rb.log[k]) /\ k - 1 < rb.maxRetries - 1) =>
            /\ Len(rb.sleeps) >= k
            /\ (rb.pc = "sleeping" /\ rb.calls = k) \/ rb.calls >= k + 1
    /\ \A k \in 1..n :
         rb.log[k].kind = "ok" =>
            k = n /\ rb.calls = k /\ rb.pc = "returned" /\ rb.settled = rb.log[k]
    /\ (n = rb.maxRetries /\ \A k \in 1..n : IsRateLimited(rb.log[k])) =>
         rb.pc = "thrown" /\ rb.settled = rb.log[n]

\* three attempts, all rate-limited: two sleeps, the third 429 is thrown
C4_Witness ==
  /\ rb.pc = "thrown"
  /\ rb.maxRetries = 3 /\ rb.calls = 3
  /\ rb.log = <<HttpError(429), HttpError(429), HttpError(429)>>
  /\ Len(rb.sleeps) = 2

\* the sum of the delays slept
RECURSIVE SumSeq(_)
SumSeq(q) == IF q = <<>> THEN 0 ELSE Head(q) + SumSeq(Tail(q))

\* C20: the sleep before the retry that follows failed attempt i (0-based)
\* is exactly initialDelay * 2^i: the first sleep is initialDelay and each
\* further one twice the one before, without jitter or cap; no sleep follows
\* the final attempt; with the defaults a fetch rate-limited on every attempt
\* sleeps 1000 and then 2000, 3000 in total.
C20_ExponentialSleeps ==
  (rb.pc # "off") =>
    /\ \A k \in 1..Len(rb.sleeps) :
         /\ k = 1 => rb.sleeps[k] = rb.initialDelay
         /\ k > 1 => rb.sleeps[k] = 2 * rb.sleeps[k - 1]
         /\ IsRateLimited(rb.log[k])
    /\ Len(rb.sleeps) <= rb.maxRetries - 1
    /\ rb.pc \in {"returned", "thrown"} => Len(rb.sleeps) = Len(rb.log) - 1
    /\ (/\ rb.maxRetries = DefaultMaxRetries /\ rb.initialDelay = DefaultInitialDelay
        /\ rb.pc = "thrown" /\ \A k \in 1..Len(rb.log) : IsRateLimited(rb.log[k])) =>
         rb.sleeps = <<1000, 2000>> /\ SumSeq(rb.sleeps) = 3000

\* the defaults, rate-limited three times: slept 1000 and 2000, then thrown
C20_Witness ==
  /\ rb.pc = "thrown" /\ IsRateLimited(rb.settled)
  /\ rb.maxRetries = DefaultMaxRetries /\ rb.initialDelay = DefaultInitialDelay
  /\ rb.sleeps = <<1000, 2000>>

-----------------------------------------------------------------------------
(* The platform: orders, variants and transactions it serves *)

\* Bounds of the exploration: the platform lists at most MaxOrders orders; it
\* answers at most MaxFaults requests of one proxy request with anything but a
\* well-formed success, and at most MaxFaultsLong when the list is longer than
\* SmallList orders.
MaxOrders == 12
SmallList == 6
MaxFaults == 3
MaxFaultsLong == 1

batchSize == 5
batchDelay == 100

\* failures of an outbound request
ErrorAnswers == {HttpError(429), HttpError(500), NetworkError}

LineItem(n, sku, variant) ==
  [id |-> n, name |-> "item"] @@
  (IF sku = Null THEN <<>> ELSE [sku |-> sku]) @@
  (IF variant = Null THEN <<>> ELSE [variant_id |-> variant])

\* line items of order k: none, already with SKU, lacking a SKU with and
\* without a variant reference, an empty list
PlatformLineItems(k) ==
  CASE k = 2 -> [line_items |-> <<LineItem(1, "SKU-A", "v1")>>]
    [] k = 3 -> [line_items |-> <<LineItem(1, "", "v1")>>]
    [] k = 4 -> [line_items |-> <<LineItem(1, "", Null), LineItem(2, "", "v1"),
                                  LineItem(3, "", "v2")>>]
    [] k = 5 -> [line_items |-> <<>>]
    [] k > 5 /\ k % 2 = 0 -> [line_items |-> <<LineItem(1, "SKU-B", Null)>>]
    [] OTHER -> <<>>

\* customer data of order k: a registered customer, a guest checkout, a
\* customer object with blank names
PlatformCustomer(k) ==
  CASE k % 3 = 1 ->
         [customer |-> [id |-> "cust", accepts_marketing |-> TRUE] @@
                       [f \in ContactFields |-> Tag("customer", f)],
          email |-> Tag("order", "email"),
          shipping_address |-> RcAddress("shipping", {"first_name", "last_name", "name", "city"})]
    [] k % 3 = 2 ->
         [email |-> Tag("order", "email"), contact_email |-> Tag("order", "contact_email"),
          shipping_address |-> RcAddress("shipping", {"first_name", "phone"}),
          billing_address |-> RcAddress("billing", {"first_name", "last_name", "phone"})]
    [] OTHER ->
         [customer |-> [id |-> "cust", accepts_marketing |-> FALSE] @@
                       [f \in ContactFields |->
                          IF f = "email" THEN Tag("customer", f) ELSE ""],
          phone |-> Tag("order", "phone")]

PlatformOrder(k) ==
  [id |-> k, order_number |-> 1000 + k] @@ PlatformCustomer(k) @@ PlatformLineItems(k)

\* the first n orders, as the list endpoint of the platform returns them
PlatformOrders(n) == [k \in 1..n |-> PlatformOrder(k)]

PlatformTransaction(k, kind) ==
  [id |-> k, authorization |-> "auth", gateway |-> "stripe", kind |-> kind,
   status |-> "success", amount |-> "10.00", currency |-> "SAR",
   receipt |-> "rcpt", created_at |-> "t0", order_id |-> k, test |-> "false"]

PlatformTransactions(k) ==
  CASE k % 3 = 1 -> <<PlatformTransaction(k, "sale")>>
    [] k % 3 = 2 -> <<PlatformTransaction(k, "sale"), PlatformTransaction(k, "refund")>>
    [] OTHER -> <<>>

PlatformVariant(v) ==
  IF v = "v1" THEN [id |-> v, sku |-> "SKU-V1", barcode |-> "BAR-V1"]
  ELSE [id |-> v, sku |-> "", barcode |-> "BAR-V2"]

\* the spreadsheet content once loaded: a full row, a partial row, and a row
\* for an order number the platform does not list
LoadedCache ==
  [k \in {"1001", "1002", "1999"} |->
     IF k = "1002" THEN SheetEntry({"email", "last_name"}, FALSE)
     ELSE SheetEntry(ContactFields, TRUE)]

-----------------------------------------------------------------------------
(* Per-order enrichment: enrichOrderWithTransactions and what it awaits *)

TransactionFields ==
  {"id", "authorization", "gateway", "kind", "status", "amount", "currency",
   "receipt", "created_at"}

\* t => ({ id: t.id, ..., created_at: t.created_at })
mapTransaction(t) == [f \in TransactionFields |-> t[f]]

mapTransactions(ts) == [j \in 1..Len(ts) |-> mapTransaction(ts[j])]

\* the loop of enrichLineItemsWithSKU from item k on, up to the first item
\* that needs a variant fetch (k > Len(items): the loop is over)
RECURSIVE scanItems(_, _, _)
scanItems(items, k, acc) ==
  IF k > Len(items) THEN [k |-> k, acc |-> acc]
  ELSE IF Truthy(Prop(items[k], "sku")) THEN scanItems(items, k + 1, Append(acc, items[k]))
  ELSE IF Truthy(Prop(items[k], "variant_id")) THEN [k |-> k, acc |-> acc]
  ELSE scanItems(items, k + 1, Append(acc, items[k]))

\* fetchOrderTransactions(enrichedOrder.id) is called: first attempt issued
startTransactions(task) ==
  [task EXCEPT !.pc = "txWait",
               !.retry = retryStart(DefaultMaxRetries, DefaultInitialDelay)]

\* enrichLineItemsWithSKU after a scan: await the next variant fetch, or
\* return the items and go on to the transactions
afterItemsInPlace(task, scan) ==
  IF scan.k > Len(task.enrichedOrder.line_items)
  THEN startTransactions([task EXCEPT !.k = scan.k, !.enrichedItems = scan.acc,
                                      !.enrichedOrder.line_items = scan.acc,
                                      !.order.line_items = scan.acc])
  ELSE [task EXCEPT !.pc = "variantWait", !.k = scan.k, !.enrichedItems = scan.acc,
                    !.variantCalls = @ + 1]

afterItems(task, scan) ==
  IF scan.k > Len(task.enrichedOrder.line_items)
  THEN startTransactions([task EXCEPT !.k = scan.k, !.enrichedItems = scan.acc,
                                      !.enrichedOrder.line_items = scan.acc])
  ELSE [task EXCEPT !.pc = "variantWait", !.k = scan.k, !.enrichedItems = scan.acc,
                    !.variantCalls = @ + 1]

\* enrichOrderWithTransactions(order) up to its first outbound request
enrichOrderWithTransactionsStart(cache, order, idx) ==
  LET eo == enrichOrderWithCustomerData(cache, order)
      t0 == [idx |-> idx, order |-> order, enrichedOrder |-> eo, pc |-> "start",
             k |-> 0, enrichedItems |-> <<>>, retry |-> [pc |-> "off"],
             variantCalls |-> 0, result |-> NullObj]
  IN IF "line_items" \in DOMAIN eo /\ Len(eo.line_items) > 0
     THEN afterItems(t0, scanItems(eo.line_items, 1, <<>>))
     ELSE startTransactions(t0)

\* fetchVariantDetails: response.data.variant, or null on any failure
fetchVariantDetails(o) ==
  IF o.kind = "ok" /\ "variant" \in DOMAIN o.data THEN o.data.variant ELSE NullObj

\* the variant fetch of item k settles
onVariantAnswerDropsFailed(task, o) ==
  LET variant == fetchVariantDetails(o)
      item == task.enrichedOrder.line_items[task.k]
      acc == IF variant # NullObj
             THEN Append(task.enrichedItems,
                         [sku |-> Or(Prop(variant, "sku"), Null),
                          barcode |-> Or(Prop(variant, "barcode"), Null)] @@ item)
             ELSE task.enrichedItems
  IN afterItems(task, scanItems(task.enrichedOrder.line_items, task.k + 1, acc))

onVariantAnswer(task, o) ==
  LET variant == fetchVariantDetails(o)
      item == task.enrichedOrder.line_items[task.k]
      pushed == IF variant # NullObj
                THEN [sku |-> Or(Prop(variant, "sku"), Null),
                      barcode |-> Or(Prop(variant, "barcode"), Null)] @@ item
                ELSE item
  IN afterItems(task, scanItems(task.enrichedOrder.line_items, task.k + 1,
                                Append(task.enrichedItems, pushed)))

\* fetchOrderTransactions once retryWithBackoff has settled: the list of the
\* response (no value property: undefined), or [] when the retry threw
fetchOrderTransactionsRethrow(r) ==
  IF r.pc = "thrown" THEN [kind |-> "thrown", error |-> r.settled]
  ELSE IF r.settled.kind = "ok" /\ "transactions" \in DOMAIN r.settled.data
       THEN [kind |-> "returned", value |-> r.settled.data.transactions]
       ELSE [kind |-> "returned"]

fetchOrderTransactions(r) ==
  IF r.pc = "thrown" THEN [kind |-> "returned", value |-> <<>>]
  ELSE IF r.settled.kind = "ok" /\ "transactions" \in DOMAIN r.settled.data
       THEN [kind |-> "returned", value |-> r.settled.data.transactions]
       ELSE [kind |-> "returned"]

\* the rest of enrichOrderWithTransactions: attach the mapped transactions;
\* anything thrown on the way (undefined.map, a rejected fetch) is caught and
\* the original order is returned
enrichOrderWithTransactionsFinishPartial(task, r) ==
  LET ft == fetchOrderTransactions(r)
  IN [task EXCEPT
        !.pc = "done", !.retry = r,
        !.result = IF ft.kind = "returned" /\ "value" \in DOMAIN ft
                   THEN [transactions |-> mapTransactions(ft.value)] @@ task.enrichedOrder
                   ELSE task.enrichedOrder]

enrichOrderWithTransactionsFinish(task, r) ==
  LET ft == fetchOrderTransactions(r)
  IN [task EXCEPT
        !.pc = "done", !.retry = r,
        !.result = IF ft.kind = "returned" /\ "value" \in DOMAIN ft
                   THEN [transactions |-> mapTransactions(ft.value)] @@ task.enrichedOrder
                   ELSE task.order]

\* a transaction request settles
onTransactionsAnswer(task, o) ==
  LET r == retryOnOutcome(task.retry, o)
  IN IF r.pc = "sleeping" THEN [task EXCEPT !.pc = "backoff", !.retry = r]
     ELSE enrichOrderWithTransactionsFinish(task, r)

\* the backoff sleep of a task elapses
onBackoffElapsed(task) ==
  LET r == retryOnWake(task.retry)
  IN IF r.pc = "calling" THEN [task EXCEPT !.pc = "txWait", !.retry = r]
     ELSE enrichOrderWithTransactionsFinish(task, r)

\* the outbound request a task is waiting for
taskFetch(task) ==
  IF task.pc = "variantWait"
  THEN {[kind |-> "variant", idx |-> task.idx, n |-> task.k]}
  ELSE IF task.pc = "txWait"
  THEN {[kind |-> "transactions", idx |-> task.idx, n |-> task.retry.i]}
  ELSE {}

\* requests issued by a step that takes a task from old to new
issuedBy(iss, new) ==
  [iss EXCEPT !.variant = @ + (IF new.pc = "variantWait" THEN 1 ELSE 0),
              !.transactions = @ + (IF new.pc = "txWait" THEN 1 ELSE 0)]

RECURSIVE issuedByAll(_, _)
issuedByAll(iss, ts) ==
  IF Len(ts) = 0 THEN iss ELSE issuedByAll(issuedBy(iss, ts[1]), Tail(ts))

-----------------------------------------------------------------------------
(* Route handlers *)

\* the state of the running handler as one record
Handler ==
  [pc |-> pc, orders |-> orders, batchStart |-> batchStart, tasks |-> tasks,
   enrichedOrders |-> enrichedOrders, responses |-> responses,
   handlerLog |-> handlerLog]

\* the message of the TypeError raised by orders.length on undefined
TypeErrorMessage == "Cannot read properties of undefined"

\* res.status(500).json({ success: false, error, message })
errorResponse(error, message) ==
  [status |-> 500, body |-> [success |-> FALSE, error |-> error, message |-> message]]

\* res.status(404).json({ success: false, error: 'Order not found' })
notFoundResponse ==
  [status |-> 404, body |-> [success |-> FALSE, error |-> "Order not found"]]

\* res.json({ success: true, count, orders })
ordersResponse(eos) ==
  [status |-> 200, body |-> [success |-> TRUE, count |-> Len(eos), orders |-> eos]]

\* res.json({ success: true, order })
orderResponse(eo) == [status |-> 200, body |-> [success |-> TRUE, order |-> eo]]

\* res.json({ success: true, debug_info, raw_order })
debugResponse(order) ==
  [status |-> 200,
   body |-> [success |-> TRUE,
             debug_info |-> [has_customer |-> "customer" \in DOMAIN order,
                             has_shipping_address |-> "shipping_address" \in DOMAIN order,
                             has_billing_address |-> "billing_address" \in DOMAIN order],
             raw_order |-> order]]

\* the handler sends r and ends
respond(h, r) == [h EXCEPT !.pc = "done", !.responses = Append(@, r)]

\* const { include_transactions = 'true' } = req.query
includeTransactions(q) ==
  IF "include_transactions" \in DOMAIN q THEN q.include_transactions ELSE "true"

\* fetchShopifyOrders once its request has settled: response.data.orders (no
\* value property: undefined), or the failure thrown again
fetchShopifyOrdersSwallow(o) ==
  IF o.kind # "ok" THEN [kind |-> "returned", value |-> <<>>]
  ELSE IF "orders" \in DOMAIN o.data THEN [kind |-> "returned", value |-> o.data.orders]
  ELSE [kind |-> "returned"]

fetchShopifyOrders(o) ==
  IF o.kind # "ok" THEN [kind |-> "thrown", error |-> o]
  ELSE IF "orders" \in DOMAIN o.data THEN [kind |-> "returned", value |-> o.data.orders]
  ELSE [kind |-> "returned"]

\* fetchOrderDetails once its request has settled: response.data.order (no
\* value property: undefined), or null on any failure
fetchOrderDetailsRethrow(o) ==
  IF o.kind # "ok" THEN [kind |-> "thrown", error |-> o]
  ELSE IF "order" \in DOMAIN o.data THEN [kind |-> "returned", value |-> o.data.order]
  ELSE [kind |-> "returned"]

fetchOrderDetails(o) ==
  IF o.kind # "ok" THEN [kind |-> "returned"]
  ELSE IF "order" \in DOMAIN o.data THEN [kind |-> "returned", value |-> o.data.order]
  ELSE [kind |-> "returned"]

Min(a, b) == IF a < b THEN a ELSE b

\* orders.slice(i, i + batchSize)
batchOfFixedEnd(ords, i) == SubSeq(ords, i + 1, Min(batchSize, Len(ords)))

batchOf(ords, i) == SubSeq(ords, i + 1, Min(i + batchSize, Len(ords)))

\* if (i + batchSize < orders.length) await sleep(100)
sleepsAfterBatchAlways(i, n) == TRUE

sleepsAfterBatchInclusive(i, n) == i + batchSize <= n

sleepsAfterBatch(i, n) == i + batchSize < n

\* await Promise.all(batchPromises) resumes once every promise has settled
batchSettledAny(ts) == \E j \in DOMAIN ts : ts[j].pc = "done"

batchSettledAllFulfilled(ts) ==
  \A j \in DOMAIN ts : ts[j].pc = "done" /\ "transactions" \in DOMAIN ts[j].result

batchSettled(ts) == \A j \in DOMAIN ts : ts[j].pc = "done"

\* batch.map(order => enrichOrderWithTransactions(order)) for the batch at i
startBatch(cache, h, i) ==
  LET batch == batchOf(h.orders, i)
  IN [h EXCEPT !.pc = "awaitBatch", !.batchStart = i,
               !.tasks = [j \in 1..Len(batch) |->
                            enrichOrderWithTransactionsStart(cache, batch[j], i + j)],
               !.handlerLog = Append(@, [ev |-> "batch", first |-> i + 1,
                                         size |-> Len(batch)])]

\* the test of the batch loop at index i: next batch, or the response
batchLoop(cache, h, i) ==
  IF i < Len(h.orders) THEN startBatch(cache, h, i)
  ELSE respond([h EXCEPT !.batchStart = i], ordersResponse(h.enrichedOrders))

\* if (include_transactions === 'true')
wantsTransactionsUnlessFalse(q) == q.include_transactions # "false"

wantsTransactions(q) == q.include_transactions = "true"

\* the list handler from the settlement of fetchShopifyOrders to its next await
listAfterFetch(cache, q, h, fr) ==
  IF fr.kind = "thrown"
  THEN respond(h, errorResponse("Failed to fetch orders", fr.error.message))
  ELSE IF "value" \notin DOMAIN fr
  THEN respond(h, errorResponse("Failed to fetch orders", TypeErrorMessage))
  ELSE LET h1 == [h EXCEPT !.orders = fr.value,
                           !.enrichedOrders =
                              [k \in 1..Len(fr.value) |->
                                 enrichOrderWithCustomerData(cache, fr.value[k])]]
       IN IF wantsTransactions(q)
          THEN batchLoop(cache, [h1 EXCEPT !.enrichedOrders = <<>>], 0)
          ELSE respond(h1, ordersResponse(h1.enrichedOrders))

listAfterBatchUnshifts(cache, h) ==
  LET h1 == [h EXCEPT !.enrichedOrders = [j \in DOMAIN h.tasks |-> h.tasks[j].result] \o @,
                      !.tasks = <<>>]
  IN IF sleepsAfterBatch(h.batchStart, Len(h.orders))
     THEN [h1 EXCEPT !.pc = "batchSleep",
                     !.handlerLog = Append(@, [ev |-> "sleep", ms |-> batchDelay])]
     ELSE batchLoop(cache, h1, h.batchStart + batchSize)

\* the list handler from the settlement of Promise.all to its next await
listAfterBatch(cache, h) ==
  LET h1 == [h EXCEPT !.enrichedOrders = @ \o [j \in DOMAIN h.tasks |-> h.tasks[j].result],
                      !.tasks = <<>>]
  IN IF sleepsAfterBatch(h.batchStart, Len(h.orders))
     THEN [h1 EXCEPT !.pc = "batchSleep",
                     !.handlerLog = Append(@, [ev |-> "sleep", ms |-> batchDelay])]
     ELSE batchLoop(cache, h1, h.batchStart + batchSize)

orderAfterFetchNoReturn(cache, rt, h, fo) ==
  IF fo.kind = "thrown"
  THEN respond(h, errorResponse("Failed to fetch order", fo.error.message))
  ELSE IF "value" \notin DOMAIN fo
  THEN respond(respond(h, notFoundResponse),
               errorResponse("Failed to fetch order", TypeErrorMessage))
  ELSE IF rt = "debug"
  THEN respond([h EXCEPT !.orders = <<fo.value>>], debugResponse(fo.value))
  ELSE [h EXCEPT !.pc = "awaitEnrich", !.orders = <<fo.value>>,
                 !.tasks = <<enrichOrderWithTransactionsStart(cache, fo.value, 1)>>]

\* the single-order and debug handlers from the settlement of
\* fetchOrderDetails to their next await
orderAfterFetch(cache, rt, h, fo) ==
  IF fo.kind = "thrown"
  THEN respond(h, errorResponse("Failed to fetch order", fo.error.message))
  ELSE IF "value" \notin DOMAIN fo
  THEN respond(h, notFoundResponse)
  ELSE IF rt = "debug"
  THEN respond([h EXCEPT !.orders = <<fo.value>>], debugResponse(fo.value))
  ELSE [h EXCEPT !.pc = "awaitEnrich", !.orders = <<fo.value>>,
                 !.tasks = <<enrichOrderWithTransactionsStart(cache, fo.value, 1)>>]

\* the single-order handler once enrichOrderWithTransactions has returned
orderAfterEnrich(h) ==
  respond([h EXCEPT !.enrichedOrders = <<h.tasks[1].result>>],
          orderResponse(h.tasks[1].result))

-----------------------------------------------------------------------------
(* Specification of the request handlers of the spreadsheet-backed server *)

CacheTimestamp == "t1"

ListQueries ==
  {<<>>} \cup {[include_transactions |-> v] : v \in {"true", "false", "1"}}

\* an answer other than the well-formed success
IsFault(o, prop) == o.kind # "ok" \/ prop \notin DOMAIN o.data

\* the platform may still misbehave within this request
FaultAllowed ==
  faults < (IF Len(orders) > SmallList THEN MaxFaultsLong ELSE MaxFaults)

ListAnswers ==
  {OkAnswer([orders |-> PlatformOrders(n)]) : n \in 0..MaxOrders}
    \cup {OkAnswer(<<>>)} \cup ErrorAnswers

OrderAnswers(id) == {OkAnswer([order |-> PlatformOrder(id)]), OkAnswer(<<>>)} \cup ErrorAnswers

TransactionsAnswers(id) ==
  {OkAnswer([transactions |-> PlatformTransactions(id)]), OkAnswer(<<>>),
   HttpError(429), HttpError(500)}

VariantAnswers(v) == {OkAnswer([variant |-> PlatformVariant(v)]), OkAnswer(<<>>)} \cup ErrorAnswers

SetHandler(h) ==
  /\ pc' = h.pc /\ orders' = h.orders /\ batchStart' = h.batchStart
  /\ tasks' = h.tasks /\ enrichedOrders' = h.enrichedOrders
  /\ responses' = h.responses /\ handlerLog' = h.handlerLog

\* the requests awaited by the tasks ts
fetchesOf(ts) == UNION {taskFetch(ts[j]) : j \in DOMAIN ts}

\* the server with its spreadsheet loaded by the refresh at startup, no request running
Init ==
  /\ customerDataCache = LoadedCache
  /\ lastCacheUpdate = CacheTimestamp
  /\ IdleRefresh /\ IdleReq /\ IdleRc /\ IdleRb /\ IdleCsv

\* GET /apps/order-report-proxy/orders arrives: fetchShopifyOrders is called
GetOrders ==
  /\ route = "none"
  /\ \E q \in ListQueries :
       query' = [include_transactions |-> includeTransactions(q), given |-> q]
  /\ route' = "list" /\ pc' = "awaitOrders"
  /\ inflight' = inflight \cup {[kind |-> "list"]}
  /\ issued' = [issued EXCEPT !.list = @ + 1]
  /\ UNCHANGED <<orders, batchStart, tasks, enrichedOrders, responses, handlerLog,
                 faults, cacheVars, rcVars, rbVars, csvVars>>

\* the list request settles: failure response, plain response, or the first
\* batch; req.query is not read again, the destructured constant is
OrdersAnswer ==
  /\ route = "list" /\ pc = "awaitOrders"
  /\ \E o \in ListAnswers :
       /\ IsFault(o, "orders") => FaultAllowed
       /\ faults' = faults + (IF IsFault(o, "orders") THEN 1 ELSE 0)
       /\ LET h == listAfterFetch(customerDataCache, query, Handler, fetchShopifyOrders(o))
          IN /\ SetHandler(h)
             /\ inflight' = (inflight \ {[kind |-> "list"]}) \cup fetchesOf(h.tasks)
             /\ issued' = issuedByAll(issued, h.tasks)
  /\ query' = [include_transactions |-> query.include_transactions]
  /\ UNCHANGED <<route, cacheVars, rcVars, rbVars, csvVars>>

\* GET /orders/:orderId or GET /debug/order/:orderId arrives: fetchOrderDetails is called
GetOrder ==
  /\ route = "none"
  /\ \E rt \in {"single", "debug"}, id \in 1..MaxOrders :
       route' = rt /\ query' = [orderId |-> id]
  /\ pc' = "awaitOrder"
  /\ inflight' = inflight \cup {[kind |-> "order"]}
  /\ issued' = [issued EXCEPT !.order = @ + 1]
  /\ UNCHANGED <<orders, batchStart, tasks, enrichedOrders, responses, handlerLog,
                 faults, cacheVars, rcVars, rbVars, csvVars>>

\* the single-order request settles: 404, the debug response, or the enrichment starts
OrderAnswer ==
  /\ route \in {"single", "debug"} /\ pc = "awaitOrder"
  /\ \E o \in OrderAnswers(query.orderId) :
       /\ IsFault(o, "order") => FaultAllowed
       /\ faults' = faults + (IF IsFault(o, "order") THEN 1 ELSE 0)
       /\ LET h == orderAfterFetch(customerDataCache, route, Handler, fetchOrderDetails(o))
          IN /\ SetHandler(h)
             /\ inflight' = (inflight \ {[kind |-> "order"]}) \cup fetchesOf(h.tasks)
             /\ issued' = issuedByAll(issued, h.tasks)
  /\ UNCHANGED <<route, query, cacheVars, rcVars, rbVars, csvVars>>

\* a variant request of one task settles
VariantAnswer ==
  /\ pc \in {"awaitBatch", "awaitEnrich"}
  /\ \E j \in DOMAIN tasks :
       /\ tasks[j].pc = "variantWait"
       /\ \E o \in VariantAnswers(tasks[j].enrichedOrder.line_items[tasks[j].k].variant_id) :
            /\ IsFault(o, "variant") => FaultAllowed
            /\ faults' = faults + (IF IsFault(o, "variant") THEN 1 ELSE 0)
            /\ LET t == onVariantAnswer(tasks[j], o)
               IN /\ tasks' = [tasks EXCEPT ![j] = t]
                  /\ inflight' = (inflight \ taskFetch(tasks[j])) \cup taskFetch(t)
                  /\ issued' = issuedBy(issued, t)
  /\ UNCHANGED <<route, pc, query, orders, batchStart, enrichedOrders, responses,
                 handlerLog, cacheVars, rcVars, rbVars, csvVars>>

\* a transaction request of one task settles
TransactionsAnswer ==
  /\ pc \in {"awaitBatch", "awaitEnrich"}
  /\ \E j \in DOMAIN tasks :
       /\ tasks[j].pc = "txWait"
       /\ \E o \in TransactionsAnswers(tasks[j].enrichedOrder.id) :
            /\ IsFault(o, "transactions") => FaultAllowed
            /\ faults' = faults + (IF IsFault(o, "transactions") THEN 1 ELSE 0)
            /\ LET t == onTransactionsAnswer(tasks[j], o)
               IN /\ tasks' = [tasks EXCEPT ![j] = t]
                  /\ inflight' = (inflight \ taskFetch(tasks[j])) \cup taskFetch(t)
                  /\ issued' = issuedBy(issued, t)
  /\ UNCHANGED <<route, pc, query, orders, batchStart, enrichedOrders, responses,
                 handlerLog, cacheVars, rcVars, rbVars, csvVars>>

\* the backoff sleep of one task elapses: the transaction request is issued again
BackoffElapses ==
  /\ pc \in {"awaitBatch", "awaitEnrich"}
  /\ \E j \in DOMAIN tasks :
       /\ tasks[j].pc = "backoff"
       /\ LET t == onBackoffElapsed(tasks[j])
          IN /\ tasks' = [tasks EXCEPT ![j] = t]
             /\ inflight' = inflight \cup taskFetch(t)
             /\ issued' = issuedBy(issued, t)
  /\ UNCHANGED <<route, pc, query, orders, batchStart, enrichedOrders, responses,
                 handlerLog, faults, cacheVars, rcVars, rbVars, csvVars>>

\* Promise.all of the batch settles: results appended, then the inter-batch
\* sleep, or the response when this was the last batch
BatchSettles ==
  /\ route = "list" /\ pc = "awaitBatch"
  /\ batchSettled(tasks)
  /\ SetHandler(listAfterBatch(customerDataCache, Handler))
  /\ UNCHANGED <<route, query, inflight, issued, faults, cacheVars, rcVars, rbVars, csvVars>>

\* the inter-batch sleep elapses: i += batchSize and the next batch starts
BatchSleepElapses ==
  /\ route = "list" /\ pc = "batchSleep"
  /\ LET h == batchLoop(customerDataCache, Handler, batchStart + batchSize)
     IN /\ SetHandler(h)
        /\ inflight' = inflight \cup fetchesOf(h.tasks)
        /\ issued' = issuedByAll(issued, h.tasks)
  /\ UNCHANGED <<route, query, faults, cacheVars, rcVars, rbVars, csvVars>>

\* enrichOrderWithTransactions of the single-order handler returns: the response
OrderEnriched ==
  /\ route = "single" /\ pc = "awaitEnrich"
  /\ tasks[1].pc = "done"
  /\ SetHandler(orderAfterEnrich(Handler))
  /\ UNCHANGED <<route, query, inflight, issued, faults, cacheVars, rcVars, rbVars, csvVars>>

Next ==
  \/ GetOrders \/ OrdersAnswer
  \/ GetOrder \/ OrderAnswer \/ OrderEnriched
  \/ VariantAnswer \/ TransactionsAnswer \/ BackoffElapses
  \/ BatchSettles \/ BatchSleepElapses

Spec == Init /\ [][Next]_vars

-----------------------------------------------------------------------------
(* Properties of the request handlers *)

\* the transaction fetch of task t ended in a failure: a failure other than
\* 429, or 429 on each of the three attempts
TransactionsFailed(t) ==
  /\ t.retry.pc # "off"
  /\ LET n == Len(t.retry.log) IN
     /\ n >= 1
     /\ t.retry.log[n].kind = "error"
     /\ ~IsRateLimited(t.retry.log[n]) \/ n = DefaultMaxRetries

\* C1: a transaction fetch that fails with a non-429 error, or with 429 on all
\* three attempts, makes enrichOrderWithTransactions return the order with
\* transactions = [] and its reconciled customer_info; no handler answers 500
\* once transaction fetches have been issued, and the single-order handler
\* answers 200 with that order.
C1_FailedTransactionsAreEmpty ==
  /\ \A j \in DOMAIN tasks :
       TransactionsFailed(tasks[j]) =>
         /\ tasks[j].pc = "done"
         /\ "transactions" \in DOMAIN tasks[j].result
         /\ tasks[j].result.transactions = <<>>
         /\ "customer_info" \in DOMAIN tasks[j].result
         /\ tasks[j].result.customer_info =
               customerInfoOf(sheetsDataOf(customerDataCache, tasks[j].order), tasks[j].order)
  /\ \A i \in DOMAIN responses : responses[i].status = 500 => issued.transactions = 0
  /\ (route = "single" /\ pc = "done" /\ tasks # <<>>) =>
        responses = <<orderResponse(tasks[1].result)>>

\* an order of a list request, rate-limited three times, is done with an empty
\* transaction list and the spreadsheet's email
C1_Witness ==
  /\ route = "list"
  /\ \E j \in DOMAIN tasks :
       /\ tasks[j].retry.pc = "thrown"
       /\ tasks[j].retry.log = <<HttpError(429), HttpError(429), HttpError(429)>>
       /\ tasks[j].pc = "done"
       /\ tasks[j].result.transactions = <<>>
       /\ tasks[j].result.customer_info.email = Tag("sheet", "email")

\* C2: when the single-order fetch fails (any failure, a response without an
\* order included), GET /orders/:orderId and GET /debug/order/:orderId answer
\* 404 with success:false, never 500, and issue no transaction or variant fetch.
C2_FailedOrderFetchIs404 ==
  /\ [][(route \in {"single", "debug"} /\ pc = "awaitOrder" /\ faults' = faults + 1) =>
          /\ pc' = "done"
          /\ responses' = <<notFoundResponse>>
          /\ issued' = issued
          /\ inflight' = {} /\ tasks' = <<>>]_vars
  /\ [](route \in {"single", "debug"} =>
          /\ \A i \in DOMAIN responses : responses[i].status # 500
          /\ (\E i \in DOMAIN responses : responses[i].status = 404) =>
               /\ pc = "done" /\ Len(responses) = 1
               /\ responses[1].body.success = FALSE
               /\ issued.transactions = 0 /\ issued.variant = 0)

\* the order fetch was answered with a failure and the handler answered 404
C2_Witness ==
  /\ route = "single" /\ pc = "done" /\ faults = 1
  /\ responses = <<notFoundResponse>>
  /\ issued = [list |-> 0, order |-> 1, transactions |-> 0, variant |-> 0]

FailureMessages == {o.message : o \in ErrorAnswers} \cup {TypeErrorMessage}

\* C3: when the list-orders call fails, GET /orders answers 500 with
\* success:false and the failure's message; the list call was issued once, and
\* no transaction fetch, variant fetch or inter-batch sleep takes place.
C3_FailedListIs500 ==
  /\ [][(route = "list" /\ pc = "awaitOrders" /\ faults' = faults + 1) =>
          /\ pc' = "done"
          /\ Len(responses') = 1
          /\ responses'[1].status = 500
          /\ responses'[1].body.success = FALSE
          /\ responses'[1].body.message \in FailureMessages
          /\ issued' = [list |-> 1, order |-> 0, transactions |-> 0, variant |-> 0]
          /\ inflight' = {} /\ tasks' = <<>> /\ handlerLog' = <<>>]_vars
  /\ [](route = "list" =>
          /\ issued.list = 1
          /\ \A i \in DOMAIN responses :
               responses[i].status = 500 =>
                 /\ issued.transactions = 0 /\ issued.variant = 0
                 /\ handlerLog = <<>> /\ pc = "done")

\* the list call was rate-limited: one request, a 500 carrying its message
C3_Witness ==
  /\ route = "list" /\ pc = "done"
  /\ responses = <<errorResponse("Failed to fetch orders", HttpError(429).message)>>
  /\ issued = [list |-> 1, order |-> 0, transactions |-> 0, variant |-> 0]

\* the line items of task t for which a variant request has been issued
VariantItemsReached(t) ==
  IF "line_items" \notin DOMAIN t.order THEN {}
  ELSE {i \in 1..Min(t.k, Len(t.order.line_items)) :
          /\ ~Truthy(Prop(t.order.line_items[i], "sku"))
          /\ Truthy(Prop(t.order.line_items[i], "variant_id"))}

\* C5: a failure other than 429 ends retryWithBackoff at once: it is the last
\* answer, it is what is thrown, and no sleep or invocation follows it; the
\* list, single-order and variant fetches issue exactly one request per call,
\* whatever the answer.
C5_OnlyRateLimitIsRetried ==
  /\ \A j \in DOMAIN tasks :
       LET r == tasks[j].retry IN
       /\ r.pc # "off" =>
            \A k \in 1..Len(r.log) :
              (r.log[k].kind = "error" /\ ~IsRateLimited(r.log[k])) =>
                 /\ k = Len(r.log) /\ r.pc = "thrown" /\ r.settled = r.log[k]
                 /\ r.calls = k /\ Len(r.sleeps) = k - 1
       /\ tasks[j].variantCalls = Cardinality(VariantItemsReached(tasks[j]))
  /\ issued.list = (IF route = "list" THEN 1 ELSE 0)
  /\ issued.order = (IF route \in {"single", "debug"} THEN 1 ELSE 0)

\* an order whose two variant fetches failed and whose transaction fetch
\* failed with a 500 on the first attempt
C5_Witness ==
  /\ \E j \in DOMAIN tasks :
       /\ tasks[j].pc = "done"
       /\ tasks[j].retry.log = <<HttpError(500)>>
       /\ tasks[j].retry.sleeps = <<>>
       /\ tasks[j].variantCalls = 2
       /\ tasks[j].result.line_items = tasks[j].order.line_items
  /\ faults = 3

\* the batches and sleeps of a list request over n orders
ExpectedLog(n) ==
  LET nb == (n + batchSize - 1) \div batchSize
  IN [e \in 1..(IF nb = 0 THEN 0 ELSE 2 * nb - 1) |->
        IF e % 2 = 1
        THEN [ev |-> "batch", first |-> batchSize * ((e - 1) \div 2) + 1,
              size |-> Min(batchSize, n - batchSize * ((e - 1) \div 2))]
        ELSE [ev |-> "sleep", ms |-> 100]]

IsPrefix(a, b) == Len(a) <= Len(b) /\ a = SubSeq(b, 1, Len(a))

\* C6: a list request with include_transactions = 'true' over N orders runs
\* ceil(N/5) batches, consecutive slices of 5 in index order with the remainder
\* last, with one 100-unit sleep between consecutive batches and none after
\* the last; the tasks of a batch are exactly the orders of its slice.
C6_BatchesAndSleeps ==
  (route = "list" /\ query.include_transactions = "true" /\ pc # "awaitOrders"
     /\ (\A i \in DOMAIN responses : responses[i].status = 200)) =>
    /\ IsPrefix(handlerLog, ExpectedLog(Len(orders)))
    /\ pc = "done" => handlerLog = ExpectedLog(Len(orders))
    /\ pc = "awaitBatch" =>
         /\ handlerLog[Len(handlerLog)].ev = "batch"
         /\ Len(tasks) = handlerLog[Len(handlerLog)].size
         /\ \A j \in DOMAIN tasks :
              /\ tasks[j].idx = handlerLog[Len(handlerLog)].first + j - 1
              /\ tasks[j].order = orders[tasks[j].idx]
    /\ pc = "batchSleep" => handlerLog[Len(handlerLog)].ev = "sleep"

\* twelve orders: batches of 5, 5 and 2 with two sleeps
C6_Witness ==
  /\ route = "list" /\ pc = "done" /\ Len(orders) = 12
  /\ handlerLog = <<[ev |-> "batch", first |-> 1, size |-> 5], [ev |-> "sleep", ms |-> 100],
                    [ev |-> "batch", first |-> 6, size |-> 5], [ev |-> "sleep", ms |-> 100],
                    [ev |-> "batch", first |-> 11, size |-> 2]>>

\* C7: within a list request at most 5 platform fetches are in flight, all of
\* them for orders of the current batch, and whenever a fetch of a batch is in
\* flight every order of the earlier batches has finished its enrichment.
C7_BoundedConcurrency ==
  route = "list" =>
    /\ Cardinality(inflight) <= batchSize
    /\ \A f \in inflight :
         f.kind \in {"variant", "transactions"} =>
           /\ batchStart < f.idx /\ f.idx <= batchStart + batchSize
           /\ Len(enrichedOrders) = batchStart
           /\ \A i \in 1..Len(enrichedOrders) :
                /\ enrichedOrders[i] # NullObj
                /\ enrichedOrders[i].id = orders[i].id
           /\ \E j \in DOMAIN tasks : f \in taskFetch(tasks[j])

\* the second batch of five orders: one order is in its backoff sleep, the
\* other four have a fetch in flight
C7_Witness ==
  /\ route = "list" /\ batchStart = batchSize
  /\ Cardinality(inflight) = batchSize - 1
  /\ \E j \in DOMAIN tasks : tasks[j].pc = "backoff"
\* the order a healthy platform leads to: customer data reconciled, every
\* line item that lacks a SKU and has a variant completed from that variant,
\* the platform's transactions attached
HealthyItem(item) ==
  IF ~Truthy(Prop(item, "sku")) /\ Truthy(Prop(item, "variant_id"))
  THEN [sku |-> Or(PlatformVariant(item.variant_id).sku, Null),
        barcode |-> Or(PlatformVariant(item.variant_id).barcode, Null)] @@ item
  ELSE item

HealthyResult(order) ==
  [transactions |-> mapTransactions(PlatformTransactions(order.id))] @@
  (IF "line_items" \in DOMAIN order /\ Len(order.line_items) > 0
   THEN [line_items |-> [i \in 1..Len(order.line_items) |-> HealthyItem(order.line_items[i])]]
   ELSE <<>>) @@
  enrichOrderWithCustomerData(customerDataCache, order)

\* the transaction response of task t carried no list to map over
NoListToMap(t) ==
  /\ t.retry.pc = "returned"
  /\ "transactions" \notin DOMAIN t.retry.settled.data

\* C11: enrichOrderWithTransactions always returns: when a step of the
\* per-order path throws (the transaction response carries no list), the value
\* returned is the original order, without customer_info and transactions;
\* the other orders of the request keep the result they have on a healthy
\* platform and the list response still holds one entry per order.
C11_ThrowReturnsOriginalOrder ==
  /\ \A j \in DOMAIN tasks :
       /\ tasks[j].pc = "done" => tasks[j].result # NullObj
       /\ (tasks[j].pc = "done" /\ NoListToMap(tasks[j])) =>
            /\ tasks[j].result = tasks[j].order
            /\ "customer_info" \notin DOMAIN tasks[j].result
            /\ "transactions" \notin DOMAIN tasks[j].result
       /\ (tasks[j].pc = "done" /\ ~NoListToMap(tasks[j])) =>
            "transactions" \in DOMAIN tasks[j].result
  /\ (route = "list" /\ pc = "done" /\ query.include_transactions = "true"
        /\ issued.transactions > 0) =>
       /\ responses = <<ordersResponse(enrichedOrders)>>
       /\ Len(enrichedOrders) = Len(orders)
       /\ (faults = 1 /\ \E i \in DOMAIN orders : enrichedOrders[i] = orders[i]) =>
            \A k \in DOMAIN orders :
              enrichedOrders[k] # orders[k] => enrichedOrders[k] = HealthyResult(orders[k])

\* seven orders, the second one returned as fetched, the other six enriched
C11_Witness ==
  /\ route = "list" /\ pc = "done" /\ Len(orders) = 7
  /\ enrichedOrders[2] = orders[2]
  /\ \A k \in {1, 3, 4, 5, 6, 7} : enrichedOrders[k] = HealthyResult(orders[k])

\* the task that takes a step: the one whose record changes
StepsTask(j) == j \in DOMAIN tasks /\ j \in DOMAIN tasks' /\ tasks'[j] # tasks[j]

\* C12: enrichLineItemsWithSKU returns one item per input item in the same
\* order; an item with a SKU or without a variant reference is returned as it
\* was and causes no fetch; a failed variant fetch leaves its item as it was
\* and the following items are still processed; the variant fetches of one
\* order are issued one at a time, each after the previous one has settled.
C12_LineItemsOneByOne ==
  /\ [](\A j \in DOMAIN tasks :
          LET t == tasks[j]
              items == IF "line_items" \in DOMAIN t.order THEN t.order.line_items ELSE <<>>
              out == IF t.pc = "variantWait" THEN t.enrichedItems
                     ELSE IF "line_items" \in DOMAIN t.enrichedOrder
                          THEN t.enrichedOrder.line_items ELSE <<>>
          IN /\ t.pc = "variantWait" =>
                  /\ Len(out) = t.k - 1
                  /\ ~Truthy(Prop(items[t.k], "sku")) /\ Truthy(Prop(items[t.k], "variant_id"))
             /\ t.pc # "variantWait" => Len(out) = Len(items)
             /\ \A i \in 1..Len(out) :
                  /\ out[i].id = items[i].id
                  /\ (Truthy(Prop(items[i], "sku")) \/ ~Truthy(Prop(items[i], "variant_id")))
                       => out[i] = items[i]
                  /\ out[i] \in {items[i], HealthyItem(items[i])}
             /\ t.variantCalls = Cardinality(VariantItemsReached(t))
             /\ Cardinality({f \in inflight : f.kind = "variant" /\ f.idx = t.idx}) =
                   (IF t.pc = "variantWait" THEN 1 ELSE 0)
             /\ (t.pc = "done" /\ ~NoListToMap(t) /\ Len(items) > 0) =>
                   t.result.line_items = out)
  /\ [][\A j \in DOMAIN tasks :
          (StepsTask(j) /\ tasks[j].pc = "variantWait") =>
             /\ tasks'[j].k > tasks[j].k
             /\ Len(tasks'[j].enrichedItems) >= tasks[j].k
             /\ SubSeq(tasks'[j].enrichedItems, 1, tasks[j].k - 1) = tasks[j].enrichedItems
             /\ faults' = faults + 1 =>
                  tasks'[j].enrichedItems[tasks[j].k] = tasks[j].order.line_items[tasks[j].k]
             /\ faults' = faults =>
                  tasks'[j].enrichedItems[tasks[j].k] =
                     HealthyItem(tasks[j].order.line_items[tasks[j].k])]_vars

\* the order with three line items: no fetch for the first, the fetch of the
\* second failed, the third was completed from its variant
C12_Witness ==
  \E j \in DOMAIN tasks :
    /\ tasks[j].pc = "done" /\ "line_items" \in DOMAIN tasks[j].order
    /\ Len(tasks[j].order.line_items) = 3
    /\ tasks[j].variantCalls = 2
    /\ tasks[j].result.line_items[1] = tasks[j].order.line_items[1]
    /\ tasks[j].result.line_items[2] = tasks[j].order.line_items[2]
    /\ tasks[j].result.line_items[3] = HealthyItem(tasks[j].order.line_items[3])
    /\ tasks[j].result.line_items[3] # tasks[j].order.line_items[3]

-----------------------------------------------------------------------------
(* Spreadsheet download and CSV parser (part_000:56-164).  A text is a
   sequence of characters, each a one-character string. *)

UpperCase == <<"A", "B", "C", "D", "E", "F", "G", "H", "I", "J", "K", "L", "M",
              "N", "O", "P", "Q", "R", "S", "T", "U", "V", "W", "X", "Y", "Z">>
LowerCase == <<"a", "b", "c", "d", "e", "f", "g", "h", "i", "j", "k", "l", "m",
              "n", "o", "p", "q", "r", "s", "t", "u", "v", "w", "x", "y", "z">>
Digits == {"0", "1", "2", "3", "4", "5", "6", "7", "8", "9"}
WhiteSpace == {" ", "\t", "\r", "\n"}

\* String.prototype.toLowerCase, character by character
toLowerCase(s) ==
  [i \in 1..Len(s) |->
     IF \E j \in 1..Len(UpperCase) : UpperCase[j] = s[i]
     THEN LowerCase[CHOOSE j \in 1..Len(UpperCase) : UpperCase[j] = s[i]]
     ELSE s[i]]

\* String.prototype.trim
RECURSIVE trimStart(_)
trimStart(s) == IF s # <<>> /\ Head(s) \in WhiteSpace THEN trimStart(Tail(s)) ELSE s

RECURSIVE trimEnd(_)
trimEnd(s) ==
  IF s # <<>> /\ s[Len(s)] \in WhiteSpace THEN trimEnd(SubSeq(s, 1, Len(s) - 1)) ELSE s

trim(s) == trimEnd(trimStart(s))

\* String.prototype.includes
includes(s, needle) ==
  \E i \in 1..(Len(s) - Len(needle) + 1) : SubSeq(s, i, i + Len(needle) - 1) = needle

\* s.replace(/"/g, '')
stripQuotes(s) == SelectSeq(s, LAMBDA c : c # "\"")

\* the JS string made of the characters of s
RECURSIVE Str(_)
Str(s) == IF s = <<>> THEN "" ELSE Head(s) \o Str(Tail(s))

\* text.split(sep): the pieces between the separators, at least one piece
split(text, sep) ==
  LET at == SelectSeq([i \in 1..Len(text) |-> i], LAMBDA i : text[i] = sep)
      cut == <<0>> \o at \o <<Len(text) + 1>>
  IN [k \in 1..(Len(at) + 1) |-> SubSeq(text, cut[k] + 1, cut[k + 1] - 1)]

\* the loop over the characters of one line, from character i on
RECURSIVE parseCsvLineFrom(_, _, _, _, _)
parseCsvLineQuotesKept(line, i, result, current, inQuotes) ==
  IF i > Len(line) THEN Append(result, current)
  ELSE IF line[i] = "\"" THEN parseCsvLineFrom(line, i + 1, result, Append(current, line[i]), ~inQuotes)
  ELSE IF line[i] = "," /\ ~inQuotes THEN parseCsvLineFrom(line, i + 1, Append(result, current), <<>>, inQuotes)
  ELSE parseCsvLineFrom(line, i + 1, result, Append(current, line[i]), inQuotes)

parseCsvLineCommaAlways(line, i, result, current, inQuotes) ==
  IF i > Len(line) THEN Append(result, current)
  ELSE IF line[i] = "\"" THEN parseCsvLineFrom(line, i + 1, result, current, ~inQuotes)
  ELSE IF line[i] = "," THEN parseCsvLineFrom(line, i + 1, Append(result, current), <<>>, inQuotes)
  ELSE parseCsvLineFrom(line, i + 1, result, Append(current, line[i]), inQuotes)

parseCsvLineFrom(line, i, result, current, inQuotes) ==
  IF i > Len(line) THEN Append(result, current)
  ELSE IF line[i] = "\"" THEN parseCsvLineFrom(line, i + 1, result, current, ~inQuotes)
  ELSE IF line[i] = "," /\ ~inQuotes THEN parseCsvLineFrom(line, i + 1, Append(result, current), <<>>, inQuotes)
  ELSE parseCsvLineFrom(line, i + 1, result, Append(current, line[i]), inQuotes)

\* lines.map(line => ...): the fields of one line
parseCsvLine(line) == parseCsvLineFrom(line, 1, <<>>, <<>>, FALSE)

\* rows[0].map(h => (h || '').toLowerCase().trim().replace(/"/g, ''))
headersOf(row) == [i \in 1..Len(row) |-> stripQuotes(trim(toLowerCase(row[i])))]

\* Array.prototype.findIndex, given for each element whether it passes the
\* test: the 0-based index of the first that does, -1 when there is none
findIndex(tested) ==
  IF \E i \in 1..Len(tested) : tested[i]
  THEN (CHOOSE i \in 1..Len(tested) : tested[i] /\ \A j \in 1..(i - 1) : ~tested[j]) - 1
  ELSE -1

isOrderIdHeader(h) ==
  includes(h, <<"i", "d">>) \/ includes(h, <<"n", "u", "m", "b", "e", "r">>) \/ includes(h, <<"n", "a", "m", "e">>)
isFirstNameHeader(h) ==
  \/ includes(h, <<"f", "i", "r", "s", "t">>) /\ includes(h, <<"n", "a", "m", "e">>)
  \/ h = <<"f", "i", "r", "s", "t", " ", "n", "a", "m", "e">>
  \/ includes(h, <<"s", "h", "i", "p", "p", "i", "n", "g">>) /\ includes(h, <<"f", "i", "r", "s", "t">>)
isLastNameHeader(h) ==
  \/ includes(h, <<"l", "a", "s", "t">>) /\ includes(h, <<"n", "a", "m", "e">>)
  \/ h = <<"l", "a", "s", "t", " ", "n", "a", "m", "e">>
  \/ includes(h, <<"s", "h", "i", "p", "p", "i", "n", "g">>) /\ includes(h, <<"l", "a", "s", "t">>)
isEmailHeader(h) == includes(h, <<"e", "m", "a", "i", "l">>)
isPhoneHeader(h) == includes(h, <<"p", "h", "o", "n", "e">>)
isAddressHeader(h) ==
  (includes(h, <<"a", "d", "d", "r", "e", "s", "s">>) \/ includes(h, <<"s", "t", "r", "e", "e", "t">>)) /\ ~includes(h, <<"2">>)
isCityHeader(h) == includes(h, <<"c", "i", "t", "y">>)
isProvinceHeader(h) == includes(h, <<"p", "r", "o", "v", "i", "n", "c", "e">>) \/ includes(h, <<"s", "t", "a", "t", "e">>)
isZipHeader(h) == includes(h, <<"z", "i", "p">>) \/ includes(h, <<"p", "o", "s", "t", "a", "l">>)
isCountryHeader(h) == includes(h, <<"c", "o", "u", "n", "t", "r", "y">>)

\* row[index] is a defined element
hasField(row, index) == index >= 0 /\ index < Len(row)

\* row[index] || null
fieldOrNull(row, index) ==
  IF hasField(row, index) /\ row[index + 1] # <<>> THEN Str(row[index + 1]) ELSE Null

\* orderIdentifier.replace(/[^0-9]/g, '')
orderNumOfKeepHash(orderIdentifier) ==
  Str(SelectSeq(orderIdentifier, LAMBDA c : c \in Digits \cup {"#"}))

orderNumOf(orderIdentifier) == Str(SelectSeq(orderIdentifier, LAMBDA c : c \in Digits))

\* the cache entry built from one row
customerDataEntry(headers, row) ==
  [first_name |-> fieldOrNull(row, findIndex([i \in 1..Len(headers) |-> isFirstNameHeader(headers[i])])),
   last_name |-> fieldOrNull(row, findIndex([i \in 1..Len(headers) |-> isLastNameHeader(headers[i])])),
   email |-> fieldOrNull(row, findIndex([i \in 1..Len(headers) |-> isEmailHeader(headers[i])])),
   phone |-> fieldOrNull(row, findIndex([i \in 1..Len(headers) |-> isPhoneHeader(headers[i])])),
   address1 |-> fieldOrNull(row, findIndex([i \in 1..Len(headers) |-> isAddressHeader(headers[i])])),
   city |-> fieldOrNull(row, findIndex([i \in 1..Len(headers) |-> isCityHeader(headers[i])])),
   province |-> fieldOrNull(row, findIndex([i \in 1..Len(headers) |-> isProvinceHeader(headers[i])])),
   zip |-> fieldOrNull(row, findIndex([i \in 1..Len(headers) |-> isZipHeader(headers[i])])),
   country |-> fieldOrNull(row, findIndex([i \in 1..Len(headers) |-> isCountryHeader(headers[i])]))]

\* the row loop from row i (1-based here) on: rows without an order
\* identifier are skipped, a later row replaces an earlier one with its key
RECURSIVE rowLoop(_, _, _, _)
rowLoop(headers, rows, i, customerData) ==
  IF i > Len(rows) THEN customerData
  ELSE LET row == rows[i]
           orderIdIndex == findIndex([j \in 1..Len(headers) |-> isOrderIdHeader(headers[j])])
           orderIdentifier == IF hasField(row, orderIdIndex) THEN trim(row[orderIdIndex + 1]) ELSE <<>>
           orderNum == orderNumOf(orderIdentifier)
       IN IF orderIdentifier = <<>> THEN rowLoop(headers, rows, i + 1, customerData)
          ELSE rowLoop(headers, rows, i + 1,
                       [k \in DOMAIN customerData \cup {orderNum} |->
                          IF k = orderNum THEN customerDataEntry(headers, row)
                          ELSE customerData[k]])

\* the rows of the downloaded text
parseCsv(text) == LET lines == split(text, "\n") IN [i \in 1..Len(lines) |-> parseCsvLine(lines[i])]

\* what fetchCustomerDataFromSheets returns when the download settled with o;
\* without a configured spreadsheet nothing is downloaded
fetchCustomerDataFromSheetsRethrow(sheetsId, o) ==
  IF ~Truthy(sheetsId) THEN [kind |-> "returned", value |-> <<>>]
  ELSE IF o.kind # "ok" THEN [kind |-> "thrown", message |-> o.message]
  ELSE IF o.data = <<>> THEN [kind |-> "returned", value |-> <<>>]
  ELSE LET rows == parseCsv(o.data)
       IN [kind |-> "returned", value |-> rowLoop(headersOf(rows[1]), rows, 2, <<>>)]

fetchCustomerDataFromSheets(sheetsId, o) ==
  IF ~Truthy(sheetsId) THEN [kind |-> "returned", value |-> <<>>]
  ELSE IF o.kind # "ok" THEN [kind |-> "returned", value |-> <<>>]
  ELSE IF o.data = <<>> THEN [kind |-> "returned", value |-> <<>>]
  ELSE LET rows == parseCsv(o.data)
       IN [kind |-> "returned", value |-> rowLoop(headersOf(rows[1]), rows, 2, <<>>)]

-----------------------------------------------------------------------------
(* Specification of the CSV parser: every short data text under one header *)

MaxLineLen == 3

CsvAlphabet == {"1", "7", "#", ",", "\"", " ", "x", "\n"}
CsvHeader == <<"O", "r", "d", "e", "r", " ", "I", "D", ",", "F", "i", "r", "s", "t", " ", "N", "a", "m", "e", ",", "E", "m", "a", "i", "l">>
CsvQuotedLine == <<"1", "0", "0", "1", ",", "\"", "D", "o", "e", ",", " ", "J", "a", "n", "e", "\"", ",", "j", "a", "n", "e", "@", "x", ".", "c", "o", "m">>
CsvIdentifiers == {<<"#", "1", "0", "3", "3">>, <<"1", "0", "3", "3">>, <<"O", "r", "d", "e", "r", " ", "1", "0", "3", "3">>}

\* the text after the header line
CsvBodies ==
  UNION {[1..n -> CsvAlphabet] : n \in 0..MaxLineLen} \cup {CsvQuotedLine} \cup CsvIdentifiers

CsvTexts == {CsvHeader \o <<"\n">> \o b : b \in CsvBodies}

CsvInit ==
  /\ csv \in {[stage |-> "input", text |-> t] : t \in CsvTexts}
  /\ IdleCache /\ IdleRc /\ IdleRb /\ IdleReq

\* the download settled with the text: fetchCustomerDataFromSheets parses it
CsvParse ==
  /\ csv.stage = "input"
  /\ csv' = [stage |-> "parsed", text |-> csv.text,
             rows |-> parseCsv(csv.text),
             customerData |->
               fetchCustomerDataFromSheets(GOOGLE_SHEETS_ID, OkAnswer(csv.text)).value]
  /\ UNCHANGED <<cacheVars, rcVars, rbVars, reqVars>>

CsvNext == CsvParse

SpecCsv == CsvInit /\ [][CsvNext]_vars

\* the identifier of a parsed data row: its first column, trimmed
CsvIdentifierOf(row) == trim(row[1])

\* the strings of digits that occur in the texts, as long as the longest
\* identifier among them
DigitStrings ==
  {Str(s) : s \in UNION {[1..n -> {"0", "1", "3", "7"}] : n \in 0..(MaxLineLen + 1)}}

\* C18: the cache key of a spreadsheet row is its order identifier with every
\* non-digit character removed ('#1033', '1033' and 'Order 1033' all give
\* '1033'), and every key of the mapping consists of digit characters only.
C18_KeysAreDigitsOfIdentifier ==
  csv.stage = "parsed" =>
    /\ \A i \in 2..Len(csv.rows) :
         CsvIdentifierOf(csv.rows[i]) # <<>> =>
           Str(SelectSeq(CsvIdentifierOf(csv.rows[i]), LAMBDA c : c \in Digits))
             \in DOMAIN csv.customerData
    /\ \A k \in DOMAIN csv.customerData :
         /\ k \in DigitStrings
         /\ \E i \in 2..Len(csv.rows) :
              /\ CsvIdentifierOf(csv.rows[i]) # <<>>
              /\ k = Str(SelectSeq(CsvIdentifierOf(csv.rows[i]), LAMBDA c : c \in Digits))
    /\ (\E id \in CsvIdentifiers : csv.text = CsvHeader \o <<"\n">> \o id) =>
         DOMAIN csv.customerData = {"1033"}

\* the row 'Order 1033' was stored under '1033'
C18_Witness ==
  /\ csv.stage = "parsed"
  /\ csv.text = CsvHeader \o <<"\n">> \o <<"O", "r", "d", "e", "r", " ", "1", "0", "3", "3">>
  /\ DOMAIN csv.customerData = {"1033"}

\* the number of commas of line that lie outside double quotes
RECURSIVE commasOutside(_, _, _)
commasOutside(line, i, inQuotes) ==
  IF i > Len(line) THEN 0
  ELSE IF line[i] = "\"" THEN commasOutside(line, i + 1, ~inQuotes)
  ELSE (IF line[i] = "," /\ ~inQuotes THEN 1 ELSE 0) + commasOutside(line, i + 1, inQuotes)

\* the fields joined by commas
RECURSIVE joinComma(_)
joinComma(fields) ==
  IF Len(fields) = 1 THEN fields[1] ELSE fields[1] \o <<",">> \o joinComma(Tail(fields))

\* C19: the CSV line splitter treats a comma as a separator only outside
\* double quotes and drops the quote characters: a line with k commas outside
\* quotes yields k+1 fields, a comma inside quotes stays inside its field, and
\* 1001,"Doe, Jane",jane@x.com yields 1001 / Doe, Jane / jane@x.com.
C19_CommaSplitsOutsideQuotes ==
  csv.stage = "parsed" =>
    LET lines == split(csv.text, "\n")
    IN /\ Len(csv.rows) = Len(lines)
       /\ \A i \in 1..Len(lines) :
            /\ Len(csv.rows[i]) = commasOutside(lines[i], 1, FALSE) + 1
            /\ \A f \in 1..Len(csv.rows[i]) : ~includes(csv.rows[i][f], <<"\"">>)
            /\ joinComma(csv.rows[i]) = stripQuotes(lines[i])
       /\ csv.text = CsvHeader \o <<"\n">> \o CsvQuotedLine =>
            csv.rows[2] = <<<<"1", "0", "0", "1">>, <<"D", "o", "e", ",", " ", "J", "a", "n", "e">>, <<"j", "a", "n", "e", "@", "x", ".", "c", "o", "m">>>>

\* the quoted example was split into three fields, the second with its comma
C19_Witness ==
  /\ csv.stage = "parsed"
  /\ csv.text = CsvHeader \o <<"\n">> \o CsvQuotedLine
  /\ Len(csv.rows[2]) = 3
  /\ csv.rows[2][2] = <<"D", "o", "e", ",", " ", "J", "a", "n", "e">>

-----------------------------------------------------------------------------
(* Specification of the cache: refreshes at startup and on request,
   overlapping each other and a list request on a healthy platform *)

MaxRefreshes == 1
CacheOrders == 6

\* what new Date() gives at the n-th completed refresh
Timestamp(n) == "t" \o ToString(n)

\* two contents of the spreadsheet, both with rows for the orders 1001 and 1006
SheetTextA ==
  <<"O", "r", "d", "e", "r", " ", "I", "D", ",", "F", "i", "r", "s", "t",
    " ", "N", "a", "m", "e", ",", "L", "a", "s", "t", " ", "N", "a", "m",
    "e", ",", "E", "m", "a", "i", "l", ",", "C", "i", "t", "y", "\n", "#",
    "1", "0", "0", "1", ",", "A", "n", "n", ",", "A", "l", "p", "h", "a",
    ",", "a", "@", "x", ",", "R", "o", "m", "e", "\n", "1", "0", "0", "6",
    ",", "A", "l", ",", "A", "l", "p", "h", "a", ",", "a", "6", "@", "x",
    ",", "R", "o", "m", "e">>

SheetTextB ==
  <<"O", "r", "d", "e", "r", " ", "I", "D", ",", "F", "i", "r", "s", "t",
    " ", "N", "a", "m", "e", ",", "L", "a", "s", "t", " ", "N", "a", "m",
    "e", ",", "E", "m", "a", "i", "l", ",", "C", "i", "t", "y", "\n", "1",
    "0", "0", "1", ",", ",", "B", "e", "t", "a", ",", "b", "@", "x", ",",
    "\n", "#", "1", "0", "0", "6", ",", "B", "o", ",", "B", "e", "t", "a",
    ",", "b", "6", "@", "x", ",", "O", "s", "l", "o">>

\* how the download of the spreadsheet can settle: a text, an empty payload,
\* no connection
SheetAnswers == {OkAnswer(SheetTextA), OkAnswer(SheetTextB), OkAnswer(<<>>), NetworkError}

\* res.json({ success: true, message, customer_count, last_update })
refreshResponse(cache, lastUpdate) ==
  [status |-> 200,
   body |-> [success |-> TRUE, message |-> "Customer data cache refreshed successfully",
             customer_count |-> Cardinality(DOMAIN cache), last_update |-> lastUpdate]]

\* customerDataCache = await fetchCustomerDataFromSheets(): the value the
\* assignment leaves in the cache that held previous
assignCachePerField(previous, fetched) ==
  [k \in DOMAIN previous \cup DOMAIN fetched |->
     IF k \notin DOMAIN fetched THEN previous[k]
     ELSE IF k \notin DOMAIN previous THEN fetched[k]
     ELSE [f \in DOMAIN fetched[k] |-> Or(fetched[k][f], previous[k][f])]]

assignCache(previous, fetched) == fetched

refreshResumesStampOnData(r, answer, fetched) ==
  LET at == Timestamp(Len(refreshLog) + 1)
      cache == assignCache(customerDataCache, fetched.value)
  IN IF fetched.kind = "returned"
     THEN /\ customerDataCache' = cache
          /\ lastCacheUpdate' = IF fetched.value = <<>> THEN lastCacheUpdate ELSE at
          /\ refreshLog' = Append(refreshLog,
               [by |-> r.by, returned |-> fetched.value, at |-> at] @@ answer @@
               (IF r.by = "manual" THEN [response |-> refreshResponse(cache, at)] ELSE <<>>))
     ELSE /\ UNCHANGED <<customerDataCache, lastCacheUpdate>>
          /\ refreshLog' = Append(refreshLog,
               [by |-> r.by, thrown |-> fetched.message] @@ answer @@
               (IF r.by = "manual"
                THEN [response |-> errorResponse("Failed to refresh customer data", fetched.message)]
                ELSE <<>>))

\* the activation r of refreshCustomerDataCache resumes with the outcome
\* fetched of fetchCustomerDataFromSheets; the handler awaiting it, if any,
\* answers in the same turn
refreshResumes(r, answer, fetched) ==
  LET at == Timestamp(Len(refreshLog) + 1)
      cache == assignCache(customerDataCache, fetched.value)
  IN IF fetched.kind = "returned"
     THEN /\ customerDataCache' = cache
          /\ lastCacheUpdate' = at
          /\ refreshLog' = Append(refreshLog,
               [by |-> r.by, returned |-> fetched.value, at |-> at] @@ answer @@
               (IF r.by = "manual" THEN [response |-> refreshResponse(cache, at)] ELSE <<>>))
     ELSE /\ UNCHANGED <<customerDataCache, lastCacheUpdate>>
          /\ refreshLog' = Append(refreshLog,
               [by |-> r.by, thrown |-> fetched.message] @@ answer @@
               (IF r.by = "manual"
                THEN [response |-> errorResponse("Failed to refresh customer data", fetched.message)]
                ELSE <<>>))

\* the server right after its start: with a spreadsheet configured the refresh
\* of startup awaits its download, without one it has already completed
CacheInit ==
  /\ GOOGLE_SHEETS_ID \in {Null, "sheet-id"}
  /\ customerDataCache = <<>>
  /\ lastCacheUpdate = IF Truthy(GOOGLE_SHEETS_ID) THEN Null ELSE Timestamp(1)
  /\ refreshes = IF Truthy(GOOGLE_SHEETS_ID) THEN {[id |-> 1, by |-> "startup"]} ELSE {}
  /\ refreshLog = IF Truthy(GOOGLE_SHEETS_ID) THEN <<>>
                  ELSE <<[by |-> "startup", returned |-> <<>>, at |-> Timestamp(1)]>>
  /\ IdleReq /\ IdleRc /\ IdleRb /\ IdleCsv

\* POST /apps/order-report-proxy/refresh-customer-data arrives: the download
\* is started; without a configured spreadsheet the refresh completes and the
\* handler answers before anything else runs
PostRefresh ==
  /\ Cardinality(refreshes) + Len(refreshLog) < MaxRefreshes + 1
  /\ LET r == [id |-> Cardinality(refreshes) + Len(refreshLog) + 1, by |-> "manual"]
     IN IF Truthy(GOOGLE_SHEETS_ID)
        THEN /\ refreshes' = refreshes \cup {r}
             /\ UNCHANGED <<customerDataCache, lastCacheUpdate, refreshLog>>
        ELSE /\ refreshResumes(r, <<>>, fetchCustomerDataFromSheets(GOOGLE_SHEETS_ID, NullObj))
             /\ UNCHANGED refreshes
  /\ UNCHANGED <<GOOGLE_SHEETS_ID, rcVars, rbVars, csvVars, reqVars>>

\* the download of one refresh settles
SheetsAnswer ==
  /\ \E r \in refreshes, o \in SheetAnswers :
       /\ refreshResumes(r, [answer |-> o], fetchCustomerDataFromSheets(GOOGLE_SHEETS_ID, o))
       /\ refreshes' = refreshes \ {r}
  /\ UNCHANGED <<GOOGLE_SHEETS_ID, rcVars, rbVars, csvVars, reqVars>>

\* the platform answers every request of the list handler with success, and
\* lists CacheOrders orders
HealthyPlatform == faults' = 0 /\ Len(orders') \in {0, CacheOrders}

CacheGetOrders == GetOrders /\ HealthyPlatform
CacheOrdersAnswer == OrdersAnswer /\ HealthyPlatform
CacheVariantAnswer == VariantAnswer /\ HealthyPlatform
CacheTransactionsAnswer == TransactionsAnswer /\ HealthyPlatform
CacheBatchSettles == BatchSettles /\ HealthyPlatform
CacheBatchSleepElapses == BatchSleepElapses /\ HealthyPlatform

CacheNext ==
  \/ PostRefresh \/ SheetsAnswer
  \/ CacheGetOrders \/ CacheOrdersAnswer
  \/ CacheVariantAnswer \/ CacheTransactionsAnswer
  \/ CacheBatchSettles \/ CacheBatchSleepElapses

SpecCache == CacheInit /\ [][CacheNext]_vars

\* the mappings the cache has held so far: the initial empty one and what
\* each completed refresh fetched
Snapshots ==
  {<<>>} \cup {refreshLog[i].returned : i \in {j \in DOMAIN refreshLog : "returned" \in DOMAIN refreshLog[j]}}

\* the part of an enriched order that enrichOrderWithCustomerData computes
CustomerPart(eo) == Pick({"customer_info", "shipping_address"}, eo)

\* the customer data of eo were computed for order from the mapping S
ReadFrom(S, order, eo) ==
  CustomerPart(eo) = CustomerPart(enrichOrderWithCustomerData(S, order))

\* C13: each call of enrichOrderWithCustomerData reads one cache snapshot:
\* whatever refreshes complete while a request is in flight, the customer_info
\* and shipping_address of one order come as a whole from one mapping that a
\* refresh installed (or the initial one), the one in place when the call was made.
C13_OneSnapshotPerOrder ==
  /\ [](/\ \A j \in DOMAIN tasks :
             \E S \in Snapshots : ReadFrom(S, tasks[j].order, tasks[j].enrichedOrder)
        /\ \A k \in DOMAIN enrichedOrders :
             \E S \in Snapshots : ReadFrom(S, orders[k], enrichedOrders[k]))
  /\ [][/\ (tasks = <<>> /\ tasks' # <<>>) =>
             \A j \in DOMAIN tasks' :
               ReadFrom(customerDataCache, tasks'[j].order, tasks'[j].enrichedOrder)
        /\ (pc = "awaitOrders" /\ pc' = "done") =>
             \A k \in DOMAIN enrichedOrders' :
               ReadFrom(customerDataCache, orders'[k], enrichedOrders'[k])
        /\ (tasks # <<>> /\ tasks' # <<>>) =>
             \A j \in DOMAIN tasks :
               CustomerPart(tasks'[j].enrichedOrder) = CustomerPart(tasks[j].enrichedOrder)]_vars

\* one response whose first order was read from the mapping of one refresh
\* and whose sixth order from the different mapping of a later refresh
C13_Witness ==
  /\ route = "list" /\ pc = "done" /\ Len(enrichedOrders) = CacheOrders
  /\ Len(refreshLog) = 2
  /\ refreshLog[1].returned # <<>> /\ refreshLog[2].returned # <<>>
  /\ refreshLog[1].returned # refreshLog[2].returned
  /\ ReadFrom(refreshLog[1].returned, orders[1], enrichedOrders[1])
  /\ ~ReadFrom(refreshLog[2].returned, orders[1], enrichedOrders[1])
  /\ ReadFrom(refreshLog[2].returned, orders[6], enrichedOrders[6])
  /\ ~ReadFrom(refreshLog[1].returned, orders[6], enrichedOrders[6])

\* the refresh had nothing to parse: no spreadsheet configured, the download
\* failed, or the payload was empty
NothingFetched(e) ==
  \/ ~Truthy(GOOGLE_SHEETS_ID)
  \/ "answer" \in DOMAIN e /\ (e.answer.kind # "ok" \/ e.answer.data = <<>>)

\* C14: fetchCustomerDataFromSheets never raises: without a configured
\* spreadsheet, after a failed download or an empty payload it returns the
\* empty mapping; the refresh then replaces the cache content with the empty
\* mapping, still sets the last-refresh timestamp, and POST
\* /refresh-customer-data answers success with customer_count 0, not 500.
C14_FailedFetchEmptiesCache ==
  /\ \A i \in DOMAIN refreshLog :
       LET e == refreshLog[i]
       IN /\ "returned" \in DOMAIN e /\ "thrown" \notin DOMAIN e
          /\ e.at = Timestamp(i)
          /\ NothingFetched(e) =>
               /\ e.returned = <<>>
               /\ e.by = "manual" =>
                    /\ e.response.status = 200
                    /\ e.response.body.success
                    /\ e.response.body.customer_count = 0
                    /\ e.response.body.last_update = e.at
  /\ Len(refreshLog) > 0 =>
       /\ "returned" \in DOMAIN refreshLog[Len(refreshLog)] =>
            customerDataCache = refreshLog[Len(refreshLog)].returned
       /\ lastCacheUpdate = Timestamp(Len(refreshLog))

\* a loaded cache was emptied by a requested refresh whose download failed
C14_Witness ==
  /\ Len(refreshLog) = 2
  /\ refreshLog[1].returned # <<>>
  /\ refreshLog[2].by = "manual" /\ refreshLog[2].answer = NetworkError
  /\ customerDataCache = <<>> /\ lastCacheUpdate = Timestamp(2)
  /\ refreshLog[2].response = refreshResponse(<<>>, Timestamp(2))

\* C15: when include_transactions is anything other than 'true', GET /orders
\* issues no transaction fetch and no variant fetch and takes no inter-batch
\* sleep; it returns every fetched order with reconciled customer data and
\* without a transactions field.  An absent parameter is destructured to
\* 'true', and with 'true' every order of a 200 response had its transactions
\* fetched.
C15_TransactionsOnlyOnRequest ==
  route = "list" =>
    /\ pc = "awaitOrders" =>
         query.include_transactions =
           (IF "include_transactions" \in DOMAIN query.given
            THEN query.given.include_transactions ELSE "true")
    /\ query.include_transactions # "true" =>
         /\ issued.transactions = 0 /\ issued.variant = 0
         /\ tasks = <<>> /\ handlerLog = <<>>
         /\ pc \in {"awaitOrders", "done"}
         /\ (pc = "done" /\ responses[1].status = 200) =>
              /\ responses = <<ordersResponse(enrichedOrders)>>
              /\ Len(enrichedOrders) = Len(orders)
              /\ \A k \in DOMAIN orders :
                   /\ enrichedOrders[k] = enrichOrderWithCustomerData(customerDataCache, orders[k])
                   /\ "customer_info" \in DOMAIN enrichedOrders[k]
                   /\ "transactions" \notin DOMAIN enrichedOrders[k]
    /\ (query.include_transactions = "true" /\ pc = "done" /\ responses[1].status = 200) =>
         /\ issued.transactions >= Len(orders)
         /\ Len(orders) > 0 => handlerLog # <<>>

\* twelve orders answered without any transaction or variant fetch
C15_Witness ==
  /\ route = "list" /\ pc = "done" /\ query.include_transactions = "1"
  /\ Len(orders) = MaxOrders /\ responses = <<ordersResponse(enrichedOrders)>>
  /\ issued.transactions = 0 /\ issued.variant = 0
  /\ "customer_info" \in DOMAIN enrichedOrders[4]

\* C16: in every 200 response of GET /orders every returned order carries a
\* customer_info record, with and without transaction inclusion, whatever
\* happens to the order's transaction and variant fetches.
C16_EveryListedOrderHasCustomerInfo ==
  (route = "list" /\ pc = "done" /\ responses[1].status = 200) =>
    \A k \in DOMAIN responses[1].body.orders :
      "customer_info" \in DOMAIN responses[1].body.orders[k]

\* C17: every 200 response of GET /orders/:orderId carries an order with a
\* transactions list (possibly empty), whatever the outcome of the
\* transaction and variant fetches.
C17_SingleOrderHasTransactions ==
  (route = "single" /\ pc = "done" /\ responses[1].status = 200) =>
    "transactions" \in DOMAIN responses[1].body.order

\* the inter-batch sleeps the running list request has taken
SleepsTaken == {e \in DOMAIN handlerLog : handlerLog[e].ev = "sleep"}

\* ceil(n / d)
CeilDiv(n, d) == (n + d - 1) \div d

\* the list request with transaction inclusion has sent its 200 response
ListedWithTransactions ==
  /\ route = "list" /\ pc = "done" /\ query.include_transactions = "true"
  /\ responses[1].status = 200

\* C21 as stated: a list request over N orders with transaction inclusion
\* incurs ceil(N/5) inter-batch delay intervals of 100 units.
C21_OneDelayPerBatch ==
  ListedWithTransactions =>
    Cardinality(SleepsTaken) = CeilDiv(Len(orders), batchSize)

\* C21 amended: a list request over N orders with transaction inclusion
\* incurs one 100-unit delay between consecutive batches and none after the
\* last: ceil(N/5) - 1 delays for N >= 1 and none for N = 0.
C21_DelaysBetweenBatches ==
  /\ ListedWithTransactions =>
       /\ Cardinality(SleepsTaken) =
            (IF Len(orders) = 0 THEN 0 ELSE CeilDiv(Len(orders), batchSize) - 1)
       /\ handlerLog # <<>> => handlerLog[Len(handlerLog)].ev = "batch"
  /\ \A e \in SleepsTaken : handlerLog[e].ms = batchDelay

\* eleven orders in three batches with two delays
C21_Witness ==
  /\ ListedWithTransactions /\ Len(orders) = 11
  /\ Cardinality(SleepsTaken) = 2
  /\ CeilDiv(Len(orders), batchSize) = 3

-----------------------------------------------------------------------------
(* The request handlers when every outbound call settles and every timer
   fires: the event loop runs each continuation that is ready *)

FairOrders == 6
FairFaults == 2

\* the requests followed to their end: lists of at most FairOrders orders
\* with at most FairFaults upstream failures
FairEnvelope == Len(orders') <= FairOrders /\ faults' <= FairFaults

FairGetOrders == GetOrders /\ FairEnvelope
FairOrdersAnswer == OrdersAnswer /\ FairEnvelope
FairVariantAnswer == VariantAnswer /\ FairEnvelope
FairTransactionsAnswer == TransactionsAnswer /\ FairEnvelope
FairBackoffElapses == BackoffElapses /\ FairEnvelope
FairBatchSettles == BatchSettles /\ FairEnvelope
FairBatchSleepElapses == BatchSleepElapses /\ FairEnvelope

FairNext ==
  \/ FairGetOrders \/ FairOrdersAnswer
  \/ FairVariantAnswer \/ FairTransactionsAnswer \/ FairBackoffElapses
  \/ FairBatchSettles \/ FairBatchSleepElapses

\* every outbound call settles, every timer fires, every ready continuation runs
Fairness ==
  /\ WF_vars(FairOrdersAnswer)
  /\ WF_vars(FairVariantAnswer) /\ WF_vars(FairTransactionsAnswer)
  /\ WF_vars(FairBackoffElapses)
  /\ WF_vars(FairBatchSettles) /\ WF_vars(FairBatchSleepElapses)

SpecFair == Init /\ [][FairNext]_vars /\ Fairness

\* the line items of a task's order
ItemsOf(t) == IF "line_items" \in DOMAIN t.order THEN t.order.line_items ELSE <<>>

-----------------------------------------------------------------------------
(* Specification of all handlers beside the refreshes of the cache *)

FrameOrderIds == {3, 4}
FrameFaults == 1

\* GET /apps/order-report-proxy/health: answered at once from the cache and
\* its timestamp (the time of day of the answer is left out)
healthResponse(cache, lastUpdate) ==
  [status |-> 200,
   body |-> [success |-> TRUE, status |-> "healthy",
             cache_status |-> [has_customer_data |-> Cardinality(DOMAIN cache) > 0,
                               customer_count |-> Cardinality(DOMAIN cache),
                               last_update |-> lastUpdate]]]

GetHealth ==
  /\ route = "none"
  /\ route' = "health" /\ pc' = "done"
  /\ responses' = Append(responses, healthResponse(customerDataCache, lastCacheUpdate))
  /\ UNCHANGED <<query, orders, batchStart, tasks, enrichedOrders, inflight, issued,
                 handlerLog, faults, cacheVars, rcVars, rbVars, csvVars>>

GraphqlAnswers == {OkAnswer([data |-> "result"])} \cup ErrorAnswers

\* the GraphQL handler once axios.post has settled: the body passed through,
\* or the failure response
graphqlAfterPost(h, o) ==
  IF o.kind = "ok" THEN respond(h, [status |-> 200, body |-> o.data])
  ELSE respond(h, errorResponse("GraphQL query failed", o.message))

\* POST /apps/order-report-proxy/graphql arrives: the query is forwarded
PostGraphql ==
  /\ route = "none"
  /\ route' = "graphql" /\ pc' = "awaitGraphql"
  /\ inflight' = inflight \cup {[kind |-> "graphql"]}
  /\ UNCHANGED <<query, orders, batchStart, tasks, enrichedOrders, responses, issued,
                 handlerLog, faults, cacheVars, rcVars, rbVars, csvVars>>

\* the forwarded query settles
GraphqlAnswer ==
  /\ route = "graphql" /\ pc = "awaitGraphql"
  /\ \E o \in GraphqlAnswers :
       /\ faults' = faults + (IF o.kind = "ok" THEN 0 ELSE 1)
       /\ SetHandler(graphqlAfterPost(Handler, o))
  /\ inflight' = inflight \ {[kind |-> "graphql"]}
  /\ UNCHANGED <<route, query, issued, cacheVars, rcVars, rbVars, csvVars>>

\* the platform fails at most FrameFaults requests of a single-order or debug
\* request, asked for an order of FrameOrderIds
FramePlatform ==
  /\ faults' <= FrameFaults
  /\ "orderId" \in DOMAIN query' => query'.orderId \in FrameOrderIds

FrameGetOrder == GetOrder /\ FramePlatform
FrameOrderAnswer == OrderAnswer /\ FramePlatform
FrameOrderEnriched == OrderEnriched /\ FramePlatform
FrameVariantAnswer == route = "single" /\ VariantAnswer /\ FramePlatform
FrameTransactionsAnswer == route = "single" /\ TransactionsAnswer /\ FramePlatform
FrameBackoffElapses == BackoffElapses /\ FramePlatform

FrameNext ==
  \/ CacheNext
  \/ GetHealth \/ PostGraphql \/ GraphqlAnswer
  \/ FrameGetOrder \/ FrameOrderAnswer \/ FrameOrderEnriched
  \/ FrameVariantAnswer \/ FrameTransactionsAnswer \/ FrameBackoffElapses

SpecFrame == CacheInit /\ [][FrameNext]_vars

\* C23: the cache and its last-refresh timestamp are changed only by
\* refreshCustomerDataCache: a step that changes either is the completion of a
\* refresh, which moves no handler; every step of the list, single-order,
\* debug, health and GraphQL handlers and of the enrichment leaves both as they
\* were.  The enrichment does not change the order it was given: the input of
\* every task is still the order as the platform sent it.
C23_OnlyRefreshWritesCache ==
  /\ [](/\ route \in {"list", "single", "debug"} /\ orders # <<>> =>
             orders = (IF route = "list" THEN PlatformOrders(Len(orders))
                       ELSE <<PlatformOrder(query.orderId)>>)
        /\ \A j \in DOMAIN tasks : tasks[j].order = orders[tasks[j].idx])
  /\ [][/\ <<customerDataCache, lastCacheUpdate>>' # <<customerDataCache, lastCacheUpdate>> =>
             /\ Len(refreshLog') = Len(refreshLog) + 1
             /\ "returned" \in DOMAIN refreshLog'[Len(refreshLog')]
             /\ UNCHANGED reqVars
        /\ reqVars' # reqVars => UNCHANGED <<customerDataCache, lastCacheUpdate, refreshLog>>]_vars

\* a single-order request answered with a line item that gained its SKU while
\* the order it was read from kept its items, after a refresh loaded the cache
C23_Witness ==
  /\ route = "single" /\ pc = "done" /\ query.orderId = 4
  /\ orders = <<PlatformOrder(4)>> /\ Len(enrichedOrders) = 1
  /\ responses = <<orderResponse(enrichedOrders[1])>>
  /\ enrichedOrders[1].line_items[2].sku = "SKU-V1"
  /\ orders[1].line_items[2].sku = ""
  /\ customerDataCache # <<>> /\ lastCacheUpdate = Timestamp(Len(refreshLog))

\* the cache and the timestamp a completed refresh left
Installed(entry) == [cache |-> entry.returned, at |-> entry.at]

\* C24: the cache and its timestamp are the initial pair (empty mapping, null)
\* while no refresh has completed, and afterwards the mapping returned by the
\* refresh that completed last together with the timestamp of that refresh;
\* the health handler reports such a pair, never the mapping of one refresh
\* with the timestamp of another.
C24_CacheOfLastCompletedRefresh ==
  /\ [cache |-> customerDataCache, at |-> lastCacheUpdate] \in
       (IF refreshLog = <<>> THEN {[cache |-> <<>>, at |-> Null]}
        ELSE {[cache |-> refreshLog[Len(refreshLog)].returned,
               at |-> refreshLog[Len(refreshLog)].at]})
  /\ route = "health" =>
       responses[1] \in
         {healthResponse(<<>>, Null)} \cup
         {healthResponse(Installed(refreshLog[e]).cache, Installed(refreshLog[e]).at) :
            e \in DOMAIN refreshLog}

\* the requested refresh, started after the refresh of startup, completed
\* first; the refresh of startup completed last and both values are its own,
\* as the health handler reports
C24_Witness ==
  /\ Len(refreshLog) = 2
  /\ refreshLog[1].by = "manual" /\ refreshLog[2].by = "startup"
  /\ refreshLog[1].returned # refreshLog[2].returned
  /\ customerDataCache = refreshLog[2].returned /\ customerDataCache # <<>>
  /\ lastCacheUpdate = refreshLog[2].at /\ lastCacheUpdate # refreshLog[1].at
  /\ route = "health"
  /\ responses = <<healthResponse(refreshLog[2].returned, refreshLog[2].at)>>

\* eo stands for the fetched order: it is that order as fetched, or carries
\* that order's reconciled customer data, one line item per item of the order
\* and every other property of the order
StandsFor(eo, order) ==
  \/ eo = order
  \/ LET rest == (DOMAIN eo) \ {"line_items", "transactions"}
         ci == enrichOrderWithCustomerData(customerDataCache, order)
     IN /\ DOMAIN eo \ {"transactions"} = DOMAIN ci
        /\ Pick(rest, eo) = Pick(rest, ci)
        /\ "line_items" \in DOMAIN eo =>
             /\ Len(eo.line_items) = Len(order.line_items)
             /\ \A k \in DOMAIN eo.line_items : eo.line_items[k].id = order.line_items[k].id

\* C25: the orders of a 200 response of GET /orders are as many as the fetched
\* orders and in their order: position i stands for fetched order i (its
\* enrichment, or the order as fetched when the enrichment failed) and count is
\* that length; while the request runs, the results gathered so far are a
\* prefix in that order and each task of the batch works on the order of its
\* own position, in whatever order the fetches of the batch settle.
C25_ResponseKeepsFetchedOrder ==
  route = "list" =>
    /\ Len(enrichedOrders) <= Len(orders)
    /\ \A i \in DOMAIN enrichedOrders : StandsFor(enrichedOrders[i], orders[i])
    /\ \A j \in DOMAIN tasks :
         /\ tasks[j].idx = batchStart + j
         /\ tasks[j].order = orders[batchStart + j]
         /\ tasks[j].pc = "done" => StandsFor(tasks[j].result, orders[batchStart + j])
    /\ (pc = "done" /\ responses[1].status = 200) =>
         /\ responses[1].body.orders = enrichedOrders
         /\ responses[1].body.count = Len(orders)
         /\ Len(responses[1].body.orders) = Len(orders)

\* twelve orders answered in three batches: the seventh as fetched, its
\* enrichment having failed, the others enriched, each at its own position
C25_Witness ==
  /\ route = "list" /\ pc = "done" /\ Len(orders) = MaxOrders
  /\ responses = <<ordersResponse(enrichedOrders)>>
  /\ responses[1].body.count = MaxOrders
  /\ enrichedOrders[7] = orders[7]
  /\ \A k \in (1..MaxOrders) \ {7} : enrichedOrders[k] = HealthyResult(orders[k])

\* the request has been answered
Answered == responses # <<>>

\* C26: a request is answered once: the response ends the handler (nothing of
\* the request is in flight or left to enrich and no later step belongs to
\* it); 404 is sent without any enrichment; a 200 response is sent once every
\* task of the request has finished and carries the results; a failure thrown
\* in the handler body is answered with one 500 that has success false and the
\* message of the failure.
C26_ExactlyOneResponse ==
  /\ [](/\ Len(responses) <= 1
        /\ Answered <=> pc = "done"
        /\ Answered =>
             /\ inflight = {}
             /\ \A j \in DOMAIN tasks : tasks[j].pc = "done"
             /\ responses[1].status \in {200, 404, 500}
             /\ responses[1].status = 404 =>
                  /\ route \in {"single", "debug"} /\ responses[1] = notFoundResponse
                  /\ tasks = <<>> /\ enrichedOrders = <<>>
                  /\ issued.transactions = 0 /\ issued.variant = 0
             /\ responses[1].status = 500 =>
                  /\ route = "list" /\ tasks = <<>> /\ enrichedOrders = <<>>
                  /\ responses[1].body.success = FALSE
                  /\ responses[1].body.message \in FailureMessages
                  /\ faults = 1
             /\ (responses[1].status = 200 /\ route = "single") =>
                  /\ tasks[1].pc = "done"
                  /\ responses[1] = orderResponse(tasks[1].result)
             /\ (responses[1].status = 200 /\ route = "list") =>
                  /\ tasks = <<>> /\ Len(enrichedOrders) = Len(orders)
                  /\ responses[1] = ordersResponse(enrichedOrders))
  /\ [][/\ Answered => UNCHANGED reqVars
        /\ (~Answered /\ Answered') =>
             /\ Len(responses') = 1
             /\ responses'[1].status = 500 <=>
                  (route = "list" /\ pc = "awaitOrders" /\ faults' = faults + 1)
             /\ responses'[1].status = 404 <=>
                  (route \in {"single", "debug"} /\ pc = "awaitOrder" /\ faults' = faults + 1)]_vars

\* the list answer carried no orders: orders.length threw in the handler body
\* and the request was answered once, with 500 and the message of that failure
C26_Witness ==
  /\ route = "list" /\ pc = "done"
  /\ responses = <<errorResponse("Failed to fetch orders", TypeErrorMessage)>>
  /\ inflight = {} /\ tasks = <<>> /\ issued.transactions = 0

-----------------------------------------------------------------------------
(* Specification of the list handler of the cache-less server (server.js) *)

LegacyOrders == 4
LegacyFaults == 2

orderDelay == 500

\* the platform may still misbehave within this request
LegacyFaultAllowed == faults < LegacyFaults

LegacyListAnswers ==
  {OkAnswer([orders |-> PlatformOrders(n)]) : n \in 0..LegacyOrders}
    \cup {OkAnswer(<<>>)} \cup ErrorAnswers

\* enrichOrderWithTransactions(order) up to its await: fetchOrderTransactions
\* is called with order.id
enrichLegacyStart(order, idx) ==
  [idx |-> idx, order |-> order, pc |-> "txWait",
   retry |-> retryStart(DefaultMaxRetries, DefaultInitialDelay), result |-> NullObj]

\* the rest of enrichOrderWithTransactions: the normalised order with the
\* mapped transactions; undefined.map throws and the order itself is returned
enrichLegacyFinish(task, r) ==
  LET ft == fetchOrderTransactions(r)
  IN [task EXCEPT
        !.pc = "done", !.retry = r,
        !.result = IF ft.kind = "returned" /\ "value" \in DOMAIN ft
                   THEN enrichLegacy(task.order, mapTransactions(ft.value))
                   ELSE task.order]

\* a transaction request settles
onLegacyTransactionsAnswer(task, o) ==
  LET r == retryOnOutcome(task.retry, o)
  IN IF r.pc = "sleeping" THEN [task EXCEPT !.pc = "backoff", !.retry = r]
     ELSE enrichLegacyFinish(task, r)

\* the backoff sleep of the task elapses
onLegacyBackoffElapsed(task) ==
  LET r == retryOnWake(task.retry)
  IN IF r.pc = "calling" THEN [task EXCEPT !.pc = "txWait", !.retry = r]
     ELSE enrichLegacyFinish(task, r)

\* if (i < orders.length - 1)
sleepsAfterOrderAlways(i, n) == TRUE

sleepsAfterOrder(i, n) == i < n - 1

\* the test of the loop at index i: the enrichment of orders[i] is started,
\* or the response is sent
orderLoop(h, i) ==
  IF i < Len(h.orders)
  THEN [h EXCEPT !.pc = "awaitEnrich", !.batchStart = i,
                 !.tasks = <<enrichLegacyStart(h.orders[i + 1], i + 1)>>,
                 !.handlerLog = Append(@, [ev |-> "enrich", idx |-> i + 1])]
  ELSE respond([h EXCEPT !.batchStart = i], ordersResponse(h.enrichedOrders))

\* the handler from the settlement of fetchShopifyOrders to its next await
legacyListAfterFetch(h, fr) ==
  IF fr.kind = "thrown"
  THEN respond(h, errorResponse("Failed to fetch orders", fr.error.message))
  ELSE IF "value" \notin DOMAIN fr
  THEN respond(h, errorResponse("Failed to fetch orders", TypeErrorMessage))
  ELSE orderLoop([h EXCEPT !.orders = fr.value], 0)

\* the handler once enrichOrderWithTransactions(orders[i]) has returned: the
\* result is pushed, then the sleep, or i++ and the loop test
legacyListAfterEnrich(h) ==
  LET h1 == [h EXCEPT !.enrichedOrders = Append(@, h.tasks[1].result), !.tasks = <<>>]
  IN IF sleepsAfterOrder(h.batchStart, Len(h.orders))
     THEN [h1 EXCEPT !.pc = "orderSleep",
                     !.handlerLog = Append(@, [ev |-> "sleep", ms |-> orderDelay])]
     ELSE orderLoop(h1, h.batchStart + 1)

\* the server of server.js: no spreadsheet, no cache, no request running
LegacyInit == IdleCache /\ IdleReq /\ IdleRc /\ IdleRb /\ IdleCsv

\* GET /apps/order-report-proxy/orders arrives: fetchShopifyOrders is called
LegacyGetOrders ==
  /\ route = "none"
  /\ route' = "legacyList" /\ pc' = "awaitOrders"
  /\ inflight' = inflight \cup {[kind |-> "list"]}
  /\ issued' = [issued EXCEPT !.list = @ + 1]
  /\ UNCHANGED <<query, orders, batchStart, tasks, enrichedOrders, responses, handlerLog,
                 faults, cacheVars, rcVars, rbVars, csvVars>>

\* the list request settles: the failure response, the empty response, or
\* the enrichment of the first order
LegacyOrdersAnswer ==
  /\ route = "legacyList" /\ pc = "awaitOrders"
  /\ \E o \in LegacyListAnswers :
       /\ IsFault(o, "orders") => LegacyFaultAllowed
       /\ faults' = faults + (IF IsFault(o, "orders") THEN 1 ELSE 0)
       /\ LET h == legacyListAfterFetch(Handler, fetchShopifyOrders(o))
          IN /\ SetHandler(h)
             /\ inflight' = (inflight \ {[kind |-> "list"]}) \cup fetchesOf(h.tasks)
             /\ issued' = issuedByAll(issued, h.tasks)
  /\ UNCHANGED <<route, query, cacheVars, rcVars, rbVars, csvVars>>

\* the transaction request of the order being enriched settles
LegacyTransactionsAnswer ==
  /\ route = "legacyList" /\ pc = "awaitEnrich"
  /\ tasks[1].pc = "txWait"
  /\ \E o \in TransactionsAnswers(tasks[1].order.id) :
       /\ IsFault(o, "transactions") => LegacyFaultAllowed
       /\ faults' = faults + (IF IsFault(o, "transactions") THEN 1 ELSE 0)
       /\ LET t == onLegacyTransactionsAnswer(tasks[1], o)
          IN /\ tasks' = <<t>>
             /\ inflight' = (inflight \ taskFetch(tasks[1])) \cup taskFetch(t)
             /\ issued' = issuedBy(issued, t)
  /\ UNCHANGED <<route, pc, query, orders, batchStart, enrichedOrders, responses,
                 handlerLog, cacheVars, rcVars, rbVars, csvVars>>

\* the backoff sleep of the order being enriched elapses
LegacyBackoffElapses ==
  /\ route = "legacyList" /\ pc = "awaitEnrich"
  /\ tasks[1].pc = "backoff"
  /\ LET t == onLegacyBackoffElapsed(tasks[1])
     IN /\ tasks' = <<t>>
        /\ inflight' = inflight \cup taskFetch(t)
        /\ issued' = issuedBy(issued, t)
  /\ UNCHANGED <<route, pc, query, orders, batchStart, enrichedOrders, responses,
                 handlerLog, faults, cacheVars, rcVars, rbVars, csvVars>>

\* enrichOrderWithTransactions returns to the loop
LegacyOrderEnriched ==
  /\ route = "legacyList" /\ pc = "awaitEnrich"
  /\ tasks[1].pc = "done"
  /\ LET h == legacyListAfterEnrich(Handler)
     IN /\ SetHandler(h)
        /\ inflight' = inflight \cup fetchesOf(h.tasks)
        /\ issued' = issuedByAll(issued, h.tasks)
  /\ UNCHANGED <<route, query, faults, cacheVars, rcVars, rbVars, csvVars>>

\* the sleep between two orders elapses: i++ and the loop test
LegacyOrderSleepElapses ==
  /\ route = "legacyList" /\ pc = "orderSleep"
  /\ LET h == orderLoop(Handler, batchStart + 1)
     IN /\ SetHandler(h)
        /\ inflight' = inflight \cup fetchesOf(h.tasks)
        /\ issued' = issuedByAll(issued, h.tasks)
  /\ UNCHANGED <<route, query, faults, cacheVars, rcVars, rbVars, csvVars>>

LegacyNext ==
  \/ LegacyGetOrders \/ LegacyOrdersAnswer
  \/ LegacyTransactionsAnswer \/ LegacyBackoffElapses
  \/ LegacyOrderEnriched \/ LegacyOrderSleepElapses

SpecLegacy == LegacyInit /\ [][LegacyNext]_vars

\* the sleeps the loop has taken between orders
OrderSleepsTaken == {e \in DOMAIN handlerLog : handlerLog[e].ev = "sleep"}

\* the first transaction request of an order is issued by this step
StartsOrder(idx) ==
  /\ tasks' # <<>> /\ tasks'[1].idx = idx
  /\ tasks = <<>> \/ tasks[1].idx # idx

\* C27: the cache-less GET /orders enriches its orders one at a time: at most
\* one transaction request is in flight, always for the order at the loop
\* index, with every earlier order finished and pushed; the request for order
\* i+1 is first issued by the step in which the 500-unit sleep taken after
\* order i elapses; the loop sleeps between orders only, so a request over N
\* orders takes N-1 sleeps (none for N <= 1) and none after the last order.
C27_OneOrderAtATime ==
  /\ [](route = "legacyList" =>
          /\ Cardinality(inflight) <= 1 /\ Len(tasks) <= 1
          /\ \A f \in inflight :
               f.kind = "transactions" =>
                 f.idx = batchStart + 1 /\ Len(enrichedOrders) = batchStart
          /\ \A j \in DOMAIN tasks :
               tasks[j].idx = batchStart + 1 /\ Len(enrichedOrders) = batchStart
          /\ pc = "orderSleep" =>
               /\ inflight = {} /\ tasks = <<>>
               /\ Len(enrichedOrders) = batchStart + 1
               /\ batchStart + 1 < Len(orders)
               /\ handlerLog[Len(handlerLog)] = [ev |-> "sleep", ms |-> orderDelay]
          /\ \A e \in OrderSleepsTaken : handlerLog[e].ms = orderDelay
          /\ Cardinality(OrderSleepsTaken) =
               (IF Len(enrichedOrders) = Len(orders) THEN Len(enrichedOrders) - 1
                ELSE Len(enrichedOrders)) \/ orders = <<>>
          /\ (pc = "done" /\ responses[1].status = 200) =>
               /\ Len(enrichedOrders) = Len(orders)
               /\ Cardinality(OrderSleepsTaken) =
                    (IF Len(orders) <= 1 THEN 0 ELSE Len(orders) - 1)
               /\ handlerLog # <<>> => handlerLog[Len(handlerLog)].ev = "enrich")
  /\ [][\A idx \in 1..LegacyOrders :
          (route = "legacyList" /\ StartsOrder(idx)) =>
            /\ Len(enrichedOrders) = idx - 1
            /\ \A f \in inflight : f.kind # "transactions"
            /\ idx = 1 => pc = "awaitOrders"
            /\ idx > 1 => pc = "orderSleep" /\ tasks = <<>>
                          /\ enrichedOrders[idx - 1] # NullObj]_vars

\* four orders answered after three sleeps, the last order enriched after a
\* retry, with nothing in flight
C27_Witness ==
  /\ route = "legacyList" /\ pc = "done" /\ Len(orders) = LegacyOrders
  /\ responses = <<ordersResponse(enrichedOrders)>>
  /\ Len(enrichedOrders) = LegacyOrders
  /\ Cardinality(OrderSleepsTaken) = LegacyOrders - 1
  /\ issued.transactions = LegacyOrders + 1
  /\ handlerLog[Len(handlerLog)] = [ev |-> "enrich", idx |-> LegacyOrders]

====
